---- MODULE Spec2Model ----
(***************************************************************************)
(* Model of the GEMM library (C += A x B on row-major float matrices):     *)
(* the dispatcher run_gemm, the four built-in implementations gemm_naive,  *)
(* gemm_blocked, gemm_packed and gemm_mk_avx2, the external stub           *)
(* gemm_openblas, the panel packers and the micro-kernels.                 *)
(*                                                                         *)
(* Arithmetic on matrix elements is exact (integers stand for floats), so  *)
(* "within 1e-6" reads "equal".  Memory is modelled at the level of flat   *)
(* buffers: A, B and C are functions from buffer offsets to values, and    *)
(* every load and store of the code is a load or store of one offset that  *)
(* is also recorded in an access log.  One worker step is one iteration of *)
(* the innermost loop nest that the code runs between two loop-control     *)
(* points of the tile scheduler: a (tile, depth-chunk) pair for the tiled  *)
(* implementations, a row for gemm_naive.                                  *)
(***************************************************************************)
EXTENDS Integers, Sequences, FiniteSets, TLC

\* ---------------------------------------------------------------- bounds
MaxM == 9
MaxN == 9
MaxK == 5
MaxThreads == 2
MaxCalls == 2
MaxSpin == 2

\* ------------------------------------------------------ program constants
VEC == 8
UNROLL == 4
DefaultTile == 256

\* ------------------------------------------------------------ C integers
Abs(x) == IF x < 0 THEN -x ELSE x

Min(a, b) == IF a < b THEN a ELSE b

\* int is 32 bits wide: a sum that leaves [IntMin, IntMax] wraps around
IntMax == 2147483647

IntMin == -IntMax - 1

AddInt(a, b) ==
    IF b > 0 /\ a > IntMax - b THEN (a + IntMin) + (b + IntMin)
    ELSE IF b < 0 /\ a < IntMin - b THEN (a - IntMin) + (b - IntMin)
    ELSE a + b

\* whether the int sum a + b, or the int product a * b, leaves [IntMin, IntMax]
AddOverflows(a, b) ==
    (b > 0 /\ a > IntMax - b) \/ (b < 0 /\ a < IntMin - b)

MulOverflows(a, b) ==
    /\ a # 0 /\ b # 0
    /\ IF (a > 0) = (b > 0)
       THEN Abs(b) > IntMax \div Abs(a)
       ELSE /\ Abs(b) > IntMax \div Abs(a)
            /\ ~(IntMax % Abs(a) = Abs(a) - 1 /\ Abs(b) = (IntMax \div Abs(a)) + 1)

NegInt(a) == IF a = IntMin THEN IntMin ELSE -a

\* 2 * h, plus a if odd
DoubleInt(h, a, odd) == IF odd THEN AddInt(AddInt(h, h), a) ELSE AddInt(h, h)

\* the 32-bit product a * b, wrapped around like the sum (b is not IntMin);
\* the half product is made a value before it is doubled
RECURSIVE MulInt(_, _)
MulInt(a, b) ==
    IF b = 0 THEN 0
    ELSE IF b < 0 THEN MulInt(NegInt(a), -b)
    ELSE CHOOSE v \in {DoubleInt(h, a, b % 2 = 1) : h \in {MulInt(a, b \div 2)}} : TRUE

\* C division truncates toward zero (the divisor is not 0 here)
CDiv(a, b) ==
    LET q == Abs(a) \div Abs(b)
    IN  IF (a < 0) # (b < 0) THEN -q ELSE q

CMod(a, b) == a - b * CDiv(a, b)

\* ------------------------------------------------------------ the buffers
Garbage == -99

\* a load of one buffer offset; an offset outside the buffer yields garbage
Load(mem, idx) == IF idx \in DOMAIN mem THEN mem[idx] ELSE Garbage

\* a store to one buffer offset; a store outside the buffer is lost
Store(mem, idx, v) == IF idx \in DOMAIN mem THEN [mem EXCEPT ![idx] = v] ELSE mem

\* for (x = lo; x < hi; x += step) st = Body(x, st), step > 0.  The test on s
\* makes the iteration's state a value before the next iteration starts.
RECURSIVE ForLoop(_, _, _, _, _)
ForLoop(x, hi, step, Body(_, _), st) ==
    IF x < hi
    THEN LET s == Body(x, st)
         IN  IF DOMAIN s = DOMAIN s THEN ForLoop(x + step, hi, step, Body, s) ELSE st
    ELSE st

\* -------------------------------------------------------------- the state
VARIABLES
    arg,       \* the arguments of the call: impl, M, N, K, lda, ldb, ldc, MB, NB, KB, seed
    nthreads,  \* size of the OpenMP team (1 also stands for a build without OpenMP)
    A, B, C,   \* the caller's buffers
    Cin,       \* C as it was when the current call started
    status,    \* where the call is: ready, parallel, or how it ended
    ncalls,    \* calls that have returned successfully
    invoked,   \* the implementations run_gemm has entered, in order
    sched,     \* nI, nJ, nTiles of the call, and the iteration count of its loop
    wk,        \* per worker: pc, t, hi, kk, its panels A_packed and B_packed
    log        \* per worker: the buffer offsets it has loaded and stored in this call

vars == <<arg, nthreads, A, B, C, Cin, status, ncalls, invoked, sched, wk, log>>

Workers == 0 .. (MaxThreads - 1)

\* the team of a call: one thread, or as many as there can be
TeamSizes == {1, MaxThreads}

Team == 0 .. (nthreads - 1)

\* the n consecutive offsets from lo on
Range(lo, n) == lo .. (lo + n - 1)

\* ------------------------------------------------- scalar and vector steps
\* n successive elements: Cm[c + x] += a * src[b + x], x = 0 .. n-1
RECURSIVE FmaRun(_, _, _, _, _, _)
FmaRun(Cm, c, a, src, b, n) ==
    IF n <= 0 THEN Cm
    ELSE FmaRun(Store(Cm, c, Load(Cm, c) + a * Load(src, b)), c + 1, a, src, b + 1, n - 1)

\* for (j = j0; j < j1; ++j) C[c0 + j] += a * B[b0 + j]
\*                               (j loop of gemm_naive, tail loop of gemm_blocked)
ScalarLoopMem(st, c0, a, b0, j0, j1) ==
    [st EXCEPT !.C = FmaRun(@, c0 + j0, a, B, b0 + j0, j1 - j0),
               !.rdB = @ \cup ((b0 + j0) .. (b0 + j1 - 1)),
               !.rdC = @ \cup ((c0 + j0) .. (c0 + j1 - 1)),
               !.wrC = @ \cup ((c0 + j0) .. (c0 + j1 - 1))]

\* the 8-wide loadu / loadu / fmadd / storeu group of gemm_blocked
VecFmaMem(st, c, a, b) ==
    [st EXCEPT !.C = FmaRun(@, c, a, B, b, VEC),
               !.rdB = @ \cup Range(b, VEC),
               !.rdC = @ \cup Range(c, VEC), !.wrC = @ \cup Range(c, VEC)]

\* fault: the scalar tail loop over the panel is left out
ScalarLoopPanelSkipped(st, c0, a, b0, j0, j1) == st

\* for (j = j0; j < j1; ++j) c_row[j] += a * b_row[j], b_row inside the B panel
ScalarLoopPanel(st, c0, a, b0, j0, j1) ==
    [st EXCEPT !.C = FmaRun(@, c0 + j0, a, st.Bp, b0 + j0, j1 - j0),
               !.rdBp = @ \cup ((b0 + j0) .. (b0 + j1 - 1)),
               !.rdC = @ \cup ((c0 + j0) .. (c0 + j1 - 1)),
               !.wrC = @ \cup ((c0 + j0) .. (c0 + j1 - 1))]

\* the 8-wide group of micro_kernel_packed
VecFmaPanel(st, c, a, b) ==
    [st EXCEPT !.C = FmaRun(@, c, a, st.Bp, b, VEC),
               !.rdBp = @ \cup Range(b, VEC),
               !.rdC = @ \cup Range(c, VEC), !.wrC = @ \cup Range(c, VEC)]

\* float a = A[idx]
ReadA(st, idx) == [st EXCEPT !.rdA = @ \cup {idx}]

\* const float a = A_packed[idx]
ReadAp(st, idx) == [st EXCEPT !.rdAp = @ \cup {idx}]

\* the worker enters the loop body of iteration t at depth offset kk
Enter(st, t, kk) == [st EXCEPT !.chunks = Append(@, <<t, kk>>)]

\* ------------------------------------------------------------ gemm_naive
\* one iteration i of the parallel loop: the k and j loops
gemm_naive_row(M, N, K, lda, ldb, ldc, i, st) ==
    ForLoop(0, K, 1,
        LAMBDA k, s1:
            ScalarLoopMem(ReadA(s1, i * lda + k), i * ldc, Load(A, i * lda + k),
                          k * ldb, 0, N),
        Enter(st, i, 0))

\* ---------------------------------------------------------- gemm_blocked
\* for (; j <= bound - 8; j += 8) st = Body(j, st); yields the final j as well
RECURSIVE VecLoop(_, _, _, _)
VecLoop(j, bound, Body(_, _), st) ==
    IF j <= bound - VEC
    THEN LET s == Body(j, st)
         IN  IF DOMAIN s = DOMAIN s THEN VecLoop(j + VEC, bound, Body, s) ELSE [j |-> j, st |-> st]
    ELSE [j |-> j, st |-> st]

\* the i, k, j loops of one depth-chunk [kk, kMax) of the tile [ii, iMax) x [jj, jMax)
gemm_blocked_chunk(lda, ldb, ldc, ii, iMax, jj, jMax, kk, kMax, st) ==
    ForLoop(ii, iMax, 1,
        LAMBDA i, s1:
            ForLoop(kk, kMax, 1,
                LAMBDA k, s2:
                    LET a == Load(A, i * lda + k)
                        r == VecLoop(jj, jMax,
                                 LAMBDA j, s3: VecFmaMem(s3, i * ldc + j, a, k * ldb + j),
                                 ReadA(s2, i * lda + k))
                    IN  ScalarLoopMem(r.st, i * ldc, a, k * ldb, r.j, jMax),
                s1),
        st)

\* ------------------------------------------------------------ the panels
\* a panel holds what has been stored into it; the rest is uninitialised
EmptyPanel == [x \in 0 .. -1 |-> 0]

\* fault: the pack loops stop one element short of the panel
PackedOffsetsShort(rows, cols) ==
    IF rows > 0 /\ cols > 0 THEN 0 .. (rows * cols - 2) ELSE {}

\* for (r = 0; r < rows; ++r) for (c = 0; c < cols; ++c)
\*     P[r * cols + c] = mem[off + r * ld + c]
\* the offsets the loops store to, and the panel after them
PackedOffsets(rows, cols) ==
    IF rows > 0 /\ cols > 0 THEN 0 .. (rows * cols - 1) ELSE {}

SourceOffsets(rows, cols, off, ld) ==
    {off + r * ld + c : r \in 0 .. (rows - 1), c \in 0 .. (cols - 1)}

\* what has been stored into a panel is always a prefix of it
Stored(P) == Cardinality(DOMAIN P)

\* fault: the source rows are taken to be cols apart, whatever the stride ld
PackLoopsDense(P, rows, cols, mem, off, ld) ==
    LET n == Cardinality(PackedOffsets(rows, cols))
    IN  [x \in 0 .. ((IF Stored(P) > n THEN Stored(P) ELSE n) - 1) |->
            IF x < n THEN Load(mem, off + x) ELSE P[x]]

PackLoops(P, rows, cols, mem, off, ld) ==
    LET n == Cardinality(PackedOffsets(rows, cols))
    IN  [x \in 0 .. ((IF Stored(P) > n THEN Stored(P) ELSE n) - 1) |->
            IF x < n THEN Load(mem, off + (x \div cols) * ld + (x % cols)) ELSE P[x]]

pack_A_panel(MBa, KBa, Aoff, lda, st) ==
    [st EXCEPT !.Ap = PackLoops(@, MBa, KBa, A, Aoff, lda),
               !.wrAp = @ \cup PackedOffsets(MBa, KBa),
               !.rdA = @ \cup SourceOffsets(MBa, KBa, Aoff, lda)]

pack_B_panel(KBa, NBa, Boff, ldb, st) ==
    [st EXCEPT !.Bp = PackLoops(@, KBa, NBa, B, Boff, ldb),
               !.wrBp = @ \cup PackedOffsets(KBa, NBa),
               !.rdB = @ \cup SourceOffsets(KBa, NBa, Boff, ldb)]

pack_A_panel_mk(MBa, KBa, Aoff, lda, st) ==
    [st EXCEPT !.Ap = PackLoops(@, MBa, KBa, A, Aoff, lda),
               !.wrAp = @ \cup PackedOffsets(MBa, KBa),
               !.rdA = @ \cup SourceOffsets(MBa, KBa, Aoff, lda)]

pack_B_panel_mk(KBa, NBa, Boff, ldb, st) ==
    [st EXCEPT !.Bp = PackLoops(@, KBa, NBa, B, Boff, ldb),
               !.wrBp = @ \cup PackedOffsets(KBa, NBa),
               !.rdB = @ \cup SourceOffsets(KBa, NBa, Boff, ldb)]

\* ----------------------------------------------------- micro_kernel_packed
micro_kernel_packed(MBa, NBa, KBa, Coff, ldc, st) ==
    ForLoop(0, MBa, 1,
        LAMBDA i, s1:
            ForLoop(0, KBa, 1,
                LAMBDA k, s2:
                    LET a == Load(s2.Ap, i * KBa + k)
                        r == VecLoop(0, NBa,
                                 LAMBDA j, s3:
                                     VecFmaPanel(s3, Coff + i * ldc + j, a, k * NBa + j),
                                 ReadAp(s2, i * KBa + k))
                    IN  ScalarLoopPanel(r.st, Coff + i * ldc, a, k * NBa, r.j, NBa),
                s1),
        st)

\* ------------------------------------------------------ the micro-kernels
Lanes == 0 .. (VEC - 1)

\* the eight accumulators c0..c7 as one register file: lane l of c_r is acc[r * 8 + l]
RegFile == 0 .. (VEC * VEC - 1)

\* fault: the accumulators start from zero instead of the current C
Mk8x8ZeroC(Coff, ldc, st) == [x \in RegFile |-> 0]

\* c_r = _mm256_loadu_ps(C + r*ldc), r = 0..7
Mk8x8LoadC(Coff, ldc, st) ==
    [x \in RegFile |-> Load(st.C, Coff + (x \div VEC) * ldc + (x % VEC))]

\* fault: the remainder loop is missing, the KC % 4 last depth steps are lost
Mk8x8StepRemainderLost(KC, Aoff, Boff, ldb, k, ks) ==
    IF k >= KC - (KC % UNROLL) THEN ks
    ELSE [ks EXCEPT !.acc = [x \in RegFile |->
                                @[x] + Load(ks.st.Ap, Aoff + (x \div VEC) * KC + k)
                                       * Load(ks.st.Bp, Boff + k * ldb + (x % VEC))]]

\* one depth step k: load B row k, broadcast A[r*KC + k], c_r = fmadd(a_r, b, c_r)
Mk8x8Step(KC, Aoff, Boff, ldb, k, ks) ==
    [ks EXCEPT !.acc = [x \in RegFile |->
                           @[x] + Load(ks.st.Ap, Aoff + (x \div VEC) * KC + k)
                                  * Load(ks.st.Bp, Boff + k * ldb + (x % VEC))],
               !.st.rdAp = @ \cup {Aoff + r * KC + k : r \in Lanes},
               !.st.rdBp = @ \cup Range(Boff + k * ldb, VEC)]

\* for (; k <= KC - 4; k += 4) { step k; step k+1; step k+2; step k+3 }
RECURSIVE Mk8x8Unrolled(_, _, _, _)
Mk8x8Unrolled(k, KC, Step(_, _), ks) ==
    IF k <= KC - UNROLL
    THEN LET s == Step(k + 3, Step(k + 2, Step(k + 1, Step(k, ks))))
         IN  IF DOMAIN s = DOMAIN s THEN Mk8x8Unrolled(k + UNROLL, KC, Step, s) ELSE [k |-> k, ks |-> ks]
    ELSE [k |-> k, ks |-> ks]

\* n successive stores: Cm[c + x] = acc[r + x], x = 0 .. n-1
RECURSIVE StoreRun(_, _, _, _, _)
StoreRun(Cm, c, acc, r, n) ==
    IF n <= 0 THEN Cm ELSE StoreRun(Store(Cm, c, acc[r]), c + 1, acc, r + 1, n - 1)

\* fault: the rows are stored 8 apart, whatever the stride ldc
Mk8x8StoreCTight(Coff, ldc, ks) ==
    ForLoop(0, VEC, 1,
        LAMBDA r, s:
            [s EXCEPT !.C = StoreRun(@, Coff + r * VEC, ks.acc, r * VEC, VEC),
                      !.wrC = @ \cup Range(Coff + r * VEC, VEC)],
        ks.st)

\* _mm256_storeu_ps(C + r*ldc, c_r), r = 0..7
Mk8x8StoreC(Coff, ldc, ks) ==
    ForLoop(0, VEC, 1,
        LAMBDA r, s:
            [s EXCEPT !.C = StoreRun(@, Coff + r * ldc, ks.acc, r * VEC, VEC),
                      !.wrC = @ \cup Range(Coff + r * ldc, VEC)],
        ks.st)

mk8x8_avx2_strided(KC, Aoff, Boff, ldb, Coff, ldc, st) ==
    LET ks0 == [acc |-> Mk8x8LoadC(Coff, ldc, st),
                st  |-> [st EXCEPT !.rdC = @ \cup UNION {Range(Coff + r * ldc, VEC) : r \in Lanes}]]
        u   == Mk8x8Unrolled(0, KC,
                   LAMBDA k, ks: Mk8x8Step(KC, Aoff, Boff, ldb, k, ks), ks0)
        ks1 == ForLoop(u.k, KC, 1,
                   LAMBDA k, ks: Mk8x8Step(KC, Aoff, Boff, ldb, k, ks), u.ks)
    IN  Mk8x8StoreC(Coff, ldc, ks1)

mk_ref_strided(MR, NR, KC, Aoff, Boff, ldb, Coff, ldc, st) ==
    ForLoop(0, MR, 1,
        LAMBDA i, s1:
            ForLoop(0, KC, 1,
                LAMBDA k, s2:
                    ScalarLoopPanel(ReadAp(s2, Aoff + i * KC + k), Coff + i * ldc,
                                    Load(s2.Ap, Aoff + i * KC + k), Boff + k * ldb, 0, NR),
                s1),
        st)

\* mk8x8_avx2: the same kernel over a B panel whose rows are 8 apart, read
\* with the aligned load _mm256_load_ps(B + k*8)
mk8x8_avx2(KC, Aoff, Boff, Coff, ldc, st) ==
    LET ks0 == [acc |-> Mk8x8LoadC(Coff, ldc, st),
                st  |-> [st EXCEPT !.rdC = @ \cup UNION {Range(Coff + r * ldc, VEC) : r \in Lanes}]]
        u   == Mk8x8Unrolled(0, KC,
                   LAMBDA k, ks: Mk8x8Step(KC, Aoff, Boff, VEC, k, ks), ks0)
        ks1 == ForLoop(u.k, KC, 1,
                   LAMBDA k, ks: Mk8x8Step(KC, Aoff, Boff, VEC, k, ks), u.ks)
    IN  Mk8x8StoreC(Coff, ldc, ks1)

\* _mm256_load_ps needs a 32-byte aligned address, that is a multiple of 8
\* floats: whether every aligned load of mk8x8_avx2 has one, for a B panel
\* that starts base floats past a 32-byte boundary
AlignedLoads(KC, base) == \A k \in 0 .. (KC - 1) : (base + k * VEC) % VEC = 0

\* an aligned load from a misaligned address is undefined: the instruction the
\* build emitted either faults or tolerates it
MisalignedLoad == {"fault", "tolerated"}

\* fault: mk_ref steps through the B panel with the row pitch 8
mk_ref_pitch8(MR, NR, KC, Aoff, Boff, Coff, ldc, st) ==
    mk_ref_strided(MR, NR, KC, Aoff, Boff, VEC, Coff, ldc, st)

\* mk_ref: b_row = &B_p[k * NR]
mk_ref(MR, NR, KC, Aoff, Boff, Coff, ldc, st) ==
    ForLoop(0, MR, 1,
        LAMBDA i, s1:
            ForLoop(0, KC, 1,
                LAMBDA k, s2:
                    ScalarLoopPanel(ReadAp(s2, Aoff + i * KC + k), Coff + i * ldc,
                                    Load(s2.Ap, Aoff + i * KC + k), Boff + k * NR, 0, NR),
                s1),
        st)

\* ------------------------------------------------------ the tile scheduler
\* nI = (M + MB - 1) / MB, nJ = (N + NB - 1) / NB, nTiles = nI * nJ.  A division
\* by zero is undefined: dz is what the build makes of it, a trap or the
\* quotient 0.
TileCounts(M, N, MB, NB, dz) ==
    LET nI == IF MB = 0 THEN 0 ELSE CDiv(AddInt(AddInt(M, MB), -1), MB)
        nJ == IF NB = 0 THEN 0 ELSE CDiv(AddInt(AddInt(N, NB), -1), NB)
    IN  [nI |-> nI, nJ |-> nJ, nTiles |-> MulInt(nI, nJ),
         trap |-> (MB = 0 \/ NB = 0) /\ dz = "trap"]

\* fault: the tile is not clamped to the matrix
TileUnclamped(t, nJ, M, N, MB, NB) ==
    LET ii == CDiv(t, nJ) * MB
        jj == CMod(t, nJ) * NB
    IN  [ii |-> ii, iMax |-> ii + MB, jj |-> jj, jMax |-> jj + NB]

\* fault: a tile reaches one row into the tile below it
TileOverlapping(t, nJ, M, N, MB, NB) ==
    LET ii == CDiv(t, nJ) * MB
        jj == CMod(t, nJ) * NB
    IN  [ii |-> ii, iMax |-> Min(ii + MB + 1, M), jj |-> jj, jMax |-> Min(jj + NB, N)]

\* ti = t / nJ, tj = t % nJ, ii = ti * MB, iMax = min(ii + MB, M), likewise jj, jMax
Tile(t, nJ, M, N, MB, NB) ==
    LET ti == CDiv(t, nJ)
        tj == CMod(t, nJ)
        ii == MulInt(ti, MB)
        jj == MulInt(tj, NB)
    IN  [ii |-> ii, iMax |-> Min(AddInt(ii, MB), M), jj |-> jj, jMax |-> Min(AddInt(jj, NB), N)]

\* fault: the loop is not work-shared, every thread runs all n iterations
OverlappingChunk(n, nth, tid) == [lo |-> 0, hi |-> IF n > 0 THEN n ELSE 0]

\* fault: the iterations left over by n / nth are given to no thread
LossyChunk(n, nth, tid) ==
    LET q == IF n > 0 THEN n \div nth ELSE 0
    IN  [lo |-> q * tid, hi |-> q * tid + q]

\* fault: the first thread is given every iteration, the others none
OneThreadTakesAll(n, nth, tid) ==
    [lo |-> 0, hi |-> IF tid = 0 /\ n > 0 THEN n ELSE 0]

\* schedule(static) without a chunk size: the n iterations are cut into nth
\* contiguous blocks whose sizes differ by at most one; thread tid runs [lo, hi)
StaticChunk(n, nth, tid) ==
    LET q  == IF n > 0 THEN n \div nth ELSE 0
        r  == IF n > 0 THEN n % nth ELSE 0
        lo == IF tid < r THEN (q + 1) * tid ELSE q * tid + r
    IN  [lo |-> lo, hi |-> lo + (IF tid < r THEN q + 1 ELSE q)]

\* gemm_blocked, one depth-chunk of tile t
gemm_blocked_step(a, t, kk, nJ, st) ==
    LET T    == Tile(t, nJ, a.M, a.N, a.MB, a.NB)
        kMax == Min(AddInt(kk, a.KB), a.K)
    IN  gemm_blocked_chunk(a.lda, a.ldb, a.ldc, T.ii, T.iMax, T.jj, T.jMax, kk, kMax,
                           Enter(st, t, kk))

\* gemm_packed, one depth-chunk of tile t: pack A, pack B, multiply
gemm_packed_step(a, t, kk, nJ, st) ==
    LET T         == Tile(t, nJ, a.M, a.N, a.MB, a.NB)
        actual_MB == T.iMax - T.ii
        actual_NB == T.jMax - T.jj
        actual_KB == Min(AddInt(kk, a.KB), a.K) - kk
        s1 == pack_A_panel(actual_MB, actual_KB, T.ii * a.lda + kk, a.lda,
                           Enter(st, t, kk))
        s2 == pack_B_panel(actual_KB, actual_NB, kk * a.ldb + T.jj, a.ldb, s1)
    IN  micro_kernel_packed(actual_MB, actual_NB, actual_KB, T.ii * a.ldc + T.jj, a.ldc, s2)

\* fault: the vector kernel is picked for every sub-block
Always8x8(mr, nr) == "mk8x8_avx2_strided"

\* the kernel gemm_mk_avx2 picks for the sub-block with mr rows and nr columns
KernelFor(mr, nr) == IF mr = VEC /\ nr = VEC THEN "mk8x8_avx2_strided" ELSE "mk_ref_strided"

\* gemm_mk_avx2, the body of the i0/j0 loops: one 8x8 (or smaller) sub-block
gemm_mk_avx2_block(ldc, Coff, actual_MB, actual_NB, actual_KB, i0, j0, st) ==
    LET mr   == Min(VEC, actual_MB - i0)
        nr   == Min(VEC, actual_NB - j0)
        Ablk == i0 * actual_KB
        Bblk == j0
        Cblk == Coff + i0 * ldc + j0
        s0   == [st EXCEPT !.kern = @ \cup {<<i0, j0, mr, nr, KernelFor(mr, nr)>>}]
    IN  IF KernelFor(mr, nr) = "mk8x8_avx2_strided"
        THEN mk8x8_avx2_strided(actual_KB, Ablk, Bblk, actual_NB, Cblk, ldc, s0)
        ELSE mk_ref_strided(mr, nr, actual_KB, Ablk, Bblk, actual_NB, Cblk, ldc, s0)

\* gemm_mk_avx2, one depth-chunk of tile t: pack A, pack B, sweep the sub-blocks
gemm_mk_avx2_step(a, t, kk, nJ, st) ==
    LET T         == Tile(t, nJ, a.M, a.N, a.MB, a.NB)
        actual_MB == T.iMax - T.ii
        actual_NB == T.jMax - T.jj
        actual_KB == Min(AddInt(kk, a.KB), a.K) - kk
        s1 == pack_A_panel_mk(actual_MB, actual_KB, T.ii * a.lda + kk, a.lda,
                              Enter(st, t, kk))
        s2 == pack_B_panel_mk(actual_KB, actual_NB, kk * a.ldb + T.jj, a.ldb, s1)
    IN  ForLoop(0, actual_MB, VEC,
            LAMBDA i0, s3:
                ForLoop(0, actual_NB, VEC,
                    LAMBDA j0, s4:
                        gemm_mk_avx2_block(a.ldc, T.ii * a.ldc + T.jj,
                                           actual_MB, actual_NB, actual_KB, i0, j0, s4),
                    s3),
            s2)

\* ------------------------------------------------------------ the inputs
Names == {"naive", "blocked", "packed", "mk_avx2", "openblas", "bogus"}

Tiled == {"blocked", "packed", "mk_avx2"}

Packing == {"packed", "mk_avx2"}

\* tile sizes offered to a call: two invalid ones, the width of the kernels'
\* inner blocking, and the default of struct Block
TileSizes == {-1, 0, VEC, DefaultTile}

DepthSizes == {-1, 0, UNROLL, DefaultTile}

Blocks == TileSizes \X TileSizes \X DepthSizes

\* all three tile sizes at their default, each one small in turn, all three small
ValidBlocks ==
    {b \in Blocks : /\ \A i \in 1 .. 3 : b[i] > 0
                    /\ Cardinality({i \in 1 .. 3 : b[i] # DefaultTile}) \in {0, 1, 3}}

\* each tile size invalid in turn, the other two at their default; and all three
InvalidBlocks ==
    {b \in Blocks : \/ Cardinality({i \in 1 .. 3 : b[i] <= 0}) = 1
                       /\ \A i \in 1 .. 3 : b[i] <= 0 \/ b[i] = DefaultTile
                    \/ \A i \in 1 .. 3 : b[i] = -1}

\* the sizes one dimension takes: empty, one element, and the two largest ones
\* (the bounds exceed the vector width and the unroll factor by one, so these
\* are a whole number of vectors or unrolled groups, and one element more)
Sizes(max) == {0, 1, max - 1, max}

\* the shapes M x N x K: the degenerate and unit shapes (every dimension 0 or
\* 1), and the shapes that vary one dimension with the other two at their bounds
Unit(s) == s[1] <= 1 /\ s[2] <= 1 /\ s[3] <= 1

Corner == <<MaxM, MaxN, MaxK>>

Shapes ==
    {s \in Sizes(MaxM) \X Sizes(MaxN) \X Sizes(MaxK) :
        Unit(s) \/ Cardinality({i \in 1 .. 3 : s[i] = Corner[i]}) >= 2}

\* the layouts of the caller's buffers, as <<pad, seed>>: the strides exceed
\* the logical widths by pad, and seed 0 is a zeroed C.  One layout has padded
\* rows and a zeroed C, the other tight rows and a C with no zero in it.
Variants == {<<1, 0>>, <<0, 1>>}

\* the arguments of one call in layout v
Args(im, s, v, b) ==
    [impl |-> im, M |-> s[1], N |-> s[2], K |-> s[3],
     lda |-> s[3] + v[1], ldb |-> s[2] + v[1], ldc |-> s[2] + v[1],
     MB |-> b[1], NB |-> b[2], KB |-> b[3], seed |-> v[2]]

ValidBlock(a) == a.MB > 0 /\ a.NB > 0 /\ a.KB > 0

DefaultBlock == <<DefaultTile, DefaultTile, DefaultTile>>

Inputs ==
    LET V == Variants
    IN  {Args(im, s, v, b) : im \in Tiled, s \in Shapes, v \in V, b \in ValidBlocks}
        \cup {Args(im, s, v, b) : im \in Tiled,
                                  s \in {<<1, 1, 1>>, Corner},
                                  v \in V, b \in InvalidBlocks}
        \cup {Args(im, s, v, DefaultBlock) : im \in Names \ Tiled, s \in Shapes, v \in V}

\* the caller's buffers: A is M x K with stride lda, B is K x N with stride
\* ldb, C is M x N with stride ldc; seed 0 is a zeroed C
AInit(a) == [x \in 0 .. (a.M * a.lda - 1) |-> x + 1 + a.seed]

BInit(a) == [x \in 0 .. (a.K * a.ldb - 1) |-> 2 * x + 1 - 3 * a.seed]

CInit(a) == [x \in 0 .. (a.M * a.ldc - 1) |-> a.seed * (x + 5)]

\* chunks: the <<t, kk>> pairs whose loop body the worker has run, in order;
\* allocd, freed: the panels it has allocated and freed, in order
NoLog == [rdA |-> {}, rdB |-> {}, rdC |-> {}, wrC |-> {},
          rdAp |-> {}, wrAp |-> {}, rdBp |-> {}, wrBp |-> {}, kern |-> {},
          chunks |-> << >>, allocd |-> << >>, freed |-> << >>]

Idle == [pc |-> "idle", t |-> 0, hi |-> 0, kk |-> 0,
         Ap |-> EmptyPanel, Bp |-> EmptyPanel, capA |-> 0, capB |-> 0, held |-> {}]

NoSched == [nI |-> 0, nJ |-> 0, nTiles |-> 0, trap |-> FALSE]

Init ==
    /\ arg \in Inputs
    /\ nthreads \in TeamSizes
    /\ A = AInit(arg)
    /\ B = BInit(arg)
    /\ C = CInit(arg)
    /\ Cin = C
    /\ status = "ready"
    /\ ncalls = 0
    /\ invoked = << >>
    /\ sched = NoSched
    /\ wk = [w \in Workers |-> Idle]
    /\ log = [w \in Workers |-> NoLog]

\* ------------------------------------------------------------ dispatcher
\* fault: two branches of the if-chain call each other's implementation
run_gemm_swapped(impl) ==
    CASE impl = "naive"    -> "gemm_naive"
      [] impl = "blocked"  -> "gemm_packed"
      [] impl = "packed"   -> "gemm_blocked"
      [] impl = "mk_avx2"  -> "gemm_mk_avx2"
      [] impl = "openblas" -> "gemm_openblas"
      [] OTHER             -> "throw"

\* fault: every name that is not recognised falls back to gemm_naive
run_gemm_fallback(impl) ==
    CASE impl = "blocked"  -> "gemm_blocked"
      [] impl = "packed"   -> "gemm_packed"
      [] impl = "mk_avx2"  -> "gemm_mk_avx2"
      [] impl = "openblas" -> "gemm_openblas"
      [] OTHER             -> "gemm_naive"

\* the if-chain of run_gemm: the function the name selects, or the throw
run_gemm_target(impl) ==
    CASE impl = "naive"    -> "gemm_naive"
      [] impl = "blocked"  -> "gemm_blocked"
      [] impl = "packed"   -> "gemm_packed"
      [] impl = "mk_avx2"  -> "gemm_mk_avx2"
      [] impl = "openblas" -> "gemm_openblas"
      [] OTHER             -> "throw"

\* fault: the stub clears C before it throws
gemm_openblas_clears(Cmem) ==
    [status |-> "backend_unavailable", C |-> [x \in DOMAIN Cmem |-> 0],
     log |-> [NoLog EXCEPT !.wrC = DOMAIN Cmem]]

\* gemm_openblas: the stub throws before touching any buffer
gemm_openblas(Cmem) == [status |-> "backend_unavailable", C |-> Cmem, log |-> NoLog]

\* what a division by zero may come to
DivZero == {"trap", "zero"}

\* where a worker stands once it is at (or past) iteration t of its block
\* [t, hi): in the loop, or past it.  A tile whose depth loop has no
\* iteration (K <= 0) touches no memory and is passed over.
AfterLoop(impl) == IF impl \in Packing THEN "barrier" ELSE "done"

\* fault: the depth loop runs its body once before it tests kk < K
AtIterationDoWhile(w, t, hi, a) ==
    IF t < hi
    THEN [w EXCEPT !.pc = "loop", !.t = t, !.hi = hi, !.kk = 0]
    ELSE [w EXCEPT !.pc = AfterLoop(a.impl), !.t = hi, !.hi = hi, !.kk = 0]

AtIteration(w, t, hi, a) ==
    IF t < hi /\ a.K > 0
    THEN [w EXCEPT !.pc = "loop", !.t = t, !.hi = hi, !.kk = 0]
    ELSE [w EXCEPT !.pc = AfterLoop(a.impl), !.t = hi, !.hi = hi, !.kk = 0]

\* entry of the parallel region with n loop iterations
Fork(n, a, nth) ==
    [w \in Workers |->
        IF w >= nth THEN Idle
        ELSE LET c == StaticChunk(n, nth, w)
             IN  IF a.impl \in Packing
                 THEN [Idle EXCEPT !.pc = "alloc", !.t = c.lo, !.hi = c.hi]
                 ELSE AtIteration(Idle, c.lo, c.hi, a)]

RunGemm ==
    /\ status = "ready"
    /\ Cin' = C
    /\ UNCHANGED <<arg, nthreads, A, B, ncalls>>
    /\ LET target == run_gemm_target(arg.impl)
       IN  \/ /\ target = "throw"
              /\ status' = "unknown_impl"
              /\ log' = [w \in Workers |-> NoLog]
              /\ UNCHANGED <<C, invoked, sched, wk>>
           \/ /\ target = "gemm_openblas"
              /\ LET r == gemm_openblas(C)
                 IN  /\ status' = r.status
                     /\ C' = r.C
                     /\ log' = [w \in Workers |-> r.log]
              /\ invoked' = Append(invoked, target)
              /\ UNCHANGED <<sched, wk>>
           \/ /\ target = "gemm_naive"
              /\ status' = "parallel"
              /\ invoked' = Append(invoked, target)
              /\ sched' = NoSched
              /\ wk' = Fork(arg.M, arg, nthreads)
              /\ log' = [w \in Workers |-> NoLog]
              /\ UNCHANGED C
           \/ /\ target \in {"gemm_blocked", "gemm_packed", "gemm_mk_avx2"}
              /\ invoked' = Append(invoked, target)
              /\ log' = [w \in Workers |-> NoLog]
              /\ UNCHANGED C
              /\ \E dz \in DivZero :
                    LET s == TileCounts(arg.M, arg.N, arg.MB, arg.NB, dz)
                    IN  /\ sched' = s
                        /\ IF s.trap
                           THEN status' = "sigfpe" /\ UNCHANGED wk
                           ELSE status' = "parallel" /\ wk' = Fork(s.nTiles, arg, nthreads)

\* ------------------------------------------------------------ the workers
View(w) ==
    [C |-> C, Ap |-> wk[w].Ap, Bp |-> wk[w].Bp,
     rdA |-> log[w].rdA, rdB |-> log[w].rdB, rdC |-> log[w].rdC, wrC |-> log[w].wrC,
     rdAp |-> {}, wrAp |-> {}, rdBp |-> {}, wrBp |-> {}, kern |-> {},
     chunks |-> log[w].chunks]

\* the step's effect on memory, on the worker's panels and on its log
Commit(w, st, next) ==
    /\ C' = st.C
    /\ wk' = [wk EXCEPT ![w] = [next EXCEPT !.Ap = st.Ap, !.Bp = st.Bp]]
    /\ log' = [log EXCEPT ![w] =
                  [@ EXCEPT !.rdA = st.rdA, !.rdB = st.rdB, !.rdC = st.rdC,
                            !.wrC = st.wrC, !.rdAp = st.rdAp, !.wrAp = st.wrAp,
                            !.rdBp = st.rdBp, !.wrBp = st.wrBp, !.kern = st.kern,
                            !.chunks = st.chunks]]
    /\ UNCHANGED <<arg, nthreads, A, B, Cin, status, ncalls, invoked, sched>>

\* fault: the depth loop stops after its first chunk
OneChunkOnly(w, a) == AtIteration(w, w.t + 1, w.hi, a)

\* fault: the depth loop does not advance
StuckChunk(w, a) == w

\* fault: the depth loop advances by two chunks, every other chunk is skipped
SkipChunk(w, a) ==
    LET kk2 == AddInt(w.kk, 2 * a.KB)
    IN  IF kk2 < a.K THEN [w EXCEPT !.kk = kk2] ELSE AtIteration(w, w.t + 1, w.hi, a)

\* kk += KB; the depth loop ends when kk >= K, and the tile loop goes on to t + 1
NextChunk(w, a) ==
    LET kk2 == AddInt(w.kk, a.KB)
    IN  IF kk2 < a.K THEN [w EXCEPT !.kk = kk2] ELSE AtIteration(w, w.t + 1, w.hi, a)

\* a depth loop that makes no progress (KB <= 0) is followed for MaxSpin rounds
Spun(w) ==
    LET done == log[w].chunks
        n    == Len(done)
    IN  \/ wk[w].kk < -MaxSpin
        \/ /\ n >= MaxSpin
           /\ \A p \in (n - MaxSpin + 1) .. n : done[p] = <<wk[w].t, wk[w].kk>>

InLoop(w, impl) ==
    /\ status = "parallel"
    /\ arg.impl = impl
    /\ wk[w].pc = "loop"
    /\ ~Spun(w)

NaiveStep(w) ==
    /\ InLoop(w, "naive")
    /\ Commit(w, gemm_naive_row(arg.M, arg.N, arg.K, arg.lda, arg.ldb, arg.ldc,
                                wk[w].t, View(w)),
              AtIteration(wk[w], wk[w].t + 1, wk[w].hi, arg))

BlockedStep(w) ==
    /\ InLoop(w, "blocked")
    /\ Commit(w, gemm_blocked_step(arg, wk[w].t, wk[w].kk, sched.nJ, View(w)),
              NextChunk(wk[w], arg))

PackedStep(w) ==
    /\ InLoop(w, "packed")
    /\ Commit(w, gemm_packed_step(arg, wk[w].t, wk[w].kk, sched.nJ, View(w)),
              NextChunk(wk[w], arg))

MkAvx2Step(w) ==
    /\ InLoop(w, "mk_avx2")
    /\ Commit(w, gemm_mk_avx2_step(arg, wk[w].t, wk[w].kk, sched.nJ, View(w)),
              NextChunk(wk[w], arg))

\* alloc_aligned_panel(MB * KB), alloc_aligned_panel(KB * NB): the int product
\* becomes a size_t, so a negative one is a request no allocator can meet
PanelCaps(a) == [A |-> MulInt(a.MB, a.KB), B |-> MulInt(a.KB, a.NB)]

\* an exception leaving the parallel region: in an OpenMP build the runtime
\* ends the process; only a build without OpenMP (one thread) unwinds to the caller
ThrowOutcomes(nth) == IF nth = 1 THEN {"alloc_failure", "terminated"} ELSE {"terminated"}

AllocPanels(w) ==
    /\ status = "parallel"
    /\ wk[w].pc = "alloc"
    /\ UNCHANGED <<arg, nthreads, A, B, C, Cin, ncalls, invoked, sched>>
    /\ LET cap == PanelCaps(arg)
       IN  \E okA \in BOOLEAN, okB \in BOOLEAN :
              /\ cap.A < 0 => ~okA
              /\ cap.B < 0 => ~okB
              /\ ~okA => okB
              /\ IF okA /\ okB
                 THEN /\ wk' = [wk EXCEPT ![w] =
                                  [AtIteration(wk[w], wk[w].t, wk[w].hi, arg)
                                      EXCEPT !.capA = cap.A, !.capB = cap.B,
                                             !.held = {"A", "B"}]]
                      /\ log' = [log EXCEPT ![w].allocd = <<"A", "B">>]
                      /\ UNCHANGED status
                 ELSE /\ wk' = [wk EXCEPT ![w].pc = "threw",
                                          ![w].held = IF okA THEN {"A"} ELSE {}]
                      /\ log' = [log EXCEPT ![w].allocd = IF okA THEN <<"A">> ELSE << >>]
                      /\ status' \in ThrowOutcomes(nthreads)

\* fault: the B panel is never freed
FreePanelsOnlyA(w) ==
    /\ status = "parallel"
    /\ wk[w].pc = "barrier"
    /\ \A v \in Team : wk[v].pc \in {"barrier", "done"}
    /\ wk' = [wk EXCEPT ![w].pc = "done", ![w].held = {"B"}, ![w].Ap = EmptyPanel]
    /\ log' = [log EXCEPT ![w].freed = <<"A">>]
    /\ UNCHANGED <<arg, nthreads, A, B, C, Cin, status, ncalls, invoked, sched>>

\* free_aligned_panel(A_packed), free_aligned_panel(B_packed), after the
\* barrier that ends the omp for
FreePanels(w) ==
    /\ status = "parallel"
    /\ wk[w].pc = "barrier"
    /\ \A v \in Team : wk[v].pc \in {"barrier", "done"}
    /\ wk' = [wk EXCEPT ![w].pc = "done", ![w].held = {},
                        ![w].Ap = EmptyPanel, ![w].Bp = EmptyPanel]
    /\ log' = [log EXCEPT ![w].freed = <<"A", "B">>]
    /\ UNCHANGED <<arg, nthreads, A, B, C, Cin, status, ncalls, invoked, sched>>

\* the join at the end of the parallel region; the call returns
Join ==
    /\ status = "parallel"
    /\ \A v \in Team : wk[v].pc = "done"
    /\ status' = "ok"
    /\ ncalls' = ncalls + 1
    /\ wk' = [w \in Workers |-> Idle]
    /\ UNCHANGED <<arg, nthreads, A, B, C, Cin, invoked, sched, log>>

\* the caller calls again with the same arguments
CallAgain ==
    /\ status = "ok"
    /\ ncalls < MaxCalls
    /\ status' = "ready"
    /\ UNCHANGED <<arg, nthreads, A, B, C, Cin, ncalls, invoked, sched, wk, log>>

Next ==
    \/ RunGemm
    \/ \E w \in Team : NaiveStep(w)
    \/ \E w \in Team : BlockedStep(w)
    \/ \E w \in Team : PackedStep(w)
    \/ \E w \in Team : MkAvx2Step(w)
    \/ \E w \in Team : AllocPanels(w)
    \/ \E w \in Team : FreePanels(w)
    \/ Join
    \/ CallAgain

Spec == Init /\ [][Next]_vars

\* ------------------------------------------------------- reference values
\* sum over k in [0, K) of A[i][k] * B[k][j]
RECURSIVE DotUpTo(_, _, _)
DotUpTo(i, j, k) ==
    IF k <= 0 THEN 0
    ELSE DotUpTo(i, j, k - 1) + A[i * arg.lda + (k - 1)] * B[(k - 1) * arg.ldb + j]

Dot(i, j) == DotUpTo(i, j, arg.K)

\* the offsets of the logical elements of A, B and C
LogicalA == {i * arg.lda + k : i \in 0 .. (arg.M - 1), k \in 0 .. (arg.K - 1)}

LogicalB == {k * arg.ldb + j : k \in 0 .. (arg.K - 1), j \in 0 .. (arg.N - 1)}

LogicalC == {i * arg.ldc + j : i \in 0 .. (arg.M - 1), j \in 0 .. (arg.N - 1)}

\* C0 + n * (A x B) on the logical region, C0 elsewhere
PlusProduct(C0, n) ==
    [x \in DOMAIN C0 |->
        IF x \in LogicalC
        THEN C0[x] + n * Dot(x \div arg.ldc, x % arg.ldc)
        ELSE C0[x]]

\* ---------------------------------------------------- one-thread execution
\* a worker's view of memory with an empty log and no panel contents
SerialView(C0) ==
    [C |-> C0, Ap |-> EmptyPanel, Bp |-> EmptyPanel,
     rdA |-> {}, rdB |-> {}, rdC |-> {}, wrC |-> {},
     rdAp |-> {}, wrAp |-> {}, rdBp |-> {}, wrBp |-> {}, kern |-> {},
     chunks |-> << >>]

\* gemm_naive run by one thread from C0: for (i = 0; i < M; ++i) the row loops
gemm_naive(a, C0) ==
    ForLoop(0, a.M, 1,
        LAMBDA i, st: gemm_naive_row(a.M, a.N, a.K, a.lda, a.ldb, a.ldc, i, st),
        SerialView(C0)).C

\* the body of the depth loop of the tiled implementation a.impl
TileChunk(a, t, kk, nJ, st) ==
    CASE a.impl = "blocked" -> gemm_blocked_step(a, t, kk, nJ, st)
      [] a.impl = "packed"  -> gemm_packed_step(a, t, kk, nJ, st)
      [] a.impl = "mk_avx2" -> gemm_mk_avx2_step(a, t, kk, nJ, st)

\* a tiled implementation run by one thread from C0, tile sizes > 0:
\* for (t = 0; t < nTiles; ++t) for (kk = 0; kk < K; kk += KB) the chunk
gemm_tiled(a, C0) ==
    LET s == TileCounts(a.M, a.N, a.MB, a.NB, "zero")
    IN  ForLoop(0, s.nTiles, 1,
            LAMBDA t, st:
                ForLoop(0, a.K, a.KB, LAMBDA kk, s2: TileChunk(a, t, kk, s.nJ, s2), st),
            SerialView(C0)).C

\* the implementation a.impl run by one thread from C0
OneThread(a, C0) == IF a.impl = "naive" THEN gemm_naive(a, C0) ELSE gemm_tiled(a, C0)

\* ------------------------------------------------------------- properties
Positive(a) == a.M >= 1 /\ a.N >= 1 /\ a.K >= 1

Returned == status = "ok"

AllWritten == UNION {log[w].wrC : w \in Team}

SmallBlock == <<VEC, VEC, UNROLL>>

BlockOf(a) == <<a.MB, a.NB, a.KB>>

ShapeOf(a) == <<a.M, a.N, a.K>>

Padded(a) == a.lda > a.K /\ a.ldb > a.N /\ a.ldc > a.N

\* C1: for M, N, K >= 1, strides >= the widths and tile sizes > 0, a call of
\* blocked, packed or mk_avx2 on a zeroed C returns the C that gemm_naive
\* computes from the same A, B and zeroed C, element for element.
C1_MatchesNaive ==
    (/\ Returned /\ ncalls = 1
     /\ arg.impl \in Tiled /\ ValidBlock(arg) /\ Positive(arg) /\ arg.seed = 0)
        => C = gemm_naive(arg, Cin)

C1_Witness ==
    /\ Returned /\ ncalls = 1 /\ nthreads = MaxThreads
    /\ arg.impl = "mk_avx2" /\ BlockOf(arg) = SmallBlock /\ ShapeOf(arg) = Corner
    /\ arg.seed = 0 /\ Padded(arg)
    /\ \A x \in DOMAIN Cin : Cin[x] = 0
    /\ C = gemm_naive(arg, Cin)
    /\ \A x \in LogicalC : C[x] # 0

\* C2: a call with a name outside the fixed set ends with the
\* unknown-implementation error, enters no implementation and leaves C as it
\* was, with no store to it.
KnownNames == {"naive", "blocked", "packed", "mk_avx2", "openblas"}

C2_UnknownNameRejected ==
    (arg.impl \notin KnownNames /\ status # "ready")
        => /\ status = "unknown_impl"
           /\ invoked = << >>
           /\ C = CInit(arg)
           /\ \A w \in Workers : log[w].wrC = {} /\ wk[w].pc = "idle"

C2_Witness ==
    /\ arg.impl = "bogus" /\ status = "unknown_impl"
    /\ ShapeOf(arg) = Corner /\ arg.seed = 1
    /\ invoked = << >> /\ C = CInit(arg)

\* C3: a call of blocked, packed or mk_avx2 with a tile size <= 0 is reported
\* as a configuration error before any panel is allocated, any element of A or
\* B is read and any element of C is written: however such a call ends, it
\* ends with that error and has touched nothing.
Untouched ==
    /\ C = Cin
    /\ \A w \in Workers :
          /\ log[w] = NoLog
          /\ wk[w].held = {} /\ wk[w].pc \in {"idle", "done"}

C3_InvalidBlockReported ==
    (arg.impl \in Tiled /\ ~ValidBlock(arg) /\ status \notin {"ready", "parallel"})
        => status = "config_error" /\ Untouched

\* C4: for M, N, K >= 1 and tile sizes > 0, every load and store of every
\* implementation addresses a logical element of A, B or C, or an index inside
\* the worker's own panel (MB*KB elements for A, KB*NB for B).
InPanel(idxs, cap) == \A x \in idxs : 0 <= x /\ x < cap

C4_AccessesInBounds ==
    (ValidBlock(arg) /\ Positive(arg))
        => \A w \in Workers :
              /\ log[w].rdA \subseteq LogicalA
              /\ log[w].rdB \subseteq LogicalB
              /\ log[w].rdC \subseteq LogicalC
              /\ log[w].wrC \subseteq LogicalC
              /\ InPanel(log[w].rdAp \cup log[w].wrAp, PanelCaps(arg).A)
              /\ InPanel(log[w].rdBp \cup log[w].wrBp, PanelCaps(arg).B)

C4_Witness ==
    /\ Returned /\ arg.impl = "blocked" /\ BlockOf(arg) = DefaultBlock
    /\ ShapeOf(arg) = Corner /\ Padded(arg)
    /\ arg.N > VEC /\ arg.N % VEC # 0
    /\ AllWritten = LogicalC
    /\ \E w \in Team : log[w].rdA = LogicalA /\ log[w].rdB = LogicalB

\* C5: during one call no element of C is written by two workers, and none is
\* written by one worker and read by another.
C5_DisjointWrites ==
    \A v \in Team : \A w \in Team :
        v # w => /\ log[v].wrC \cap log[w].wrC = {}
                 /\ log[v].wrC \cap log[w].rdC = {}

C5_Witness ==
    /\ Returned /\ nthreads = MaxThreads /\ arg.impl = "naive"
    /\ ShapeOf(arg) = Corner
    /\ \A w \in Team : log[w].wrC # {}
    /\ AllWritten = LogicalC

\* C6: a call that returns with tile sizes > 0 leaves C = C0 + A x B on the
\* logical region for any initial C0, so the n-th call that returns leaves
\* C0 + n * (A x B), n = 1, 2.
C6_Accumulates ==
    (Returned /\ ValidBlock(arg)) => C = PlusProduct(CInit(arg), ncalls)

C6_Witness ==
    /\ Returned /\ ncalls = MaxCalls /\ arg.seed = 1
    /\ arg.impl = "mk_avx2" /\ BlockOf(arg) = DefaultBlock /\ ShapeOf(arg) = Corner
    /\ \A x \in LogicalC : CInit(arg)[x] # 0 /\ C[x] # Cin[x] /\ Cin[x] # CInit(arg)[x]
    /\ C = PlusProduct(CInit(arg), MaxCalls)

\* C7: for a fixed problem and a fixed implementation among blocked, packed
\* and mk_avx2, the C a call returns under any tile sizes > 0 is the C the
\* implementation computes under the default tile sizes: no two valid block
\* configurations differ in their result.
WithBlock(a, b) == [a EXCEPT !.MB = b[1], !.NB = b[2], !.KB = b[3]]

C7_TilingInvariant ==
    (Returned /\ arg.impl \in Tiled /\ ValidBlock(arg))
        => C = gemm_tiled(WithBlock(arg, DefaultBlock), Cin)

C7_Witness ==
    /\ Returned /\ arg.impl = "packed" /\ BlockOf(arg) = SmallBlock
    /\ ShapeOf(arg) = Corner /\ arg.seed = 1 /\ ncalls = MaxCalls
    /\ sched.nTiles = 4
    /\ C = gemm_tiled(WithBlock(arg, DefaultBlock), Cin)
    /\ C # Cin

\* C8: for fixed inputs with tile sizes > 0, the C a call returns is the C one
\* thread computes from the same inputs, whatever the number of threads and
\* the order of their steps.
C8_Deterministic ==
    (Returned /\ ValidBlock(arg)) => C = OneThread(arg, Cin)

C8_Witness ==
    /\ Returned /\ nthreads = MaxThreads /\ arg.impl = "mk_avx2"
    /\ BlockOf(arg) = SmallBlock /\ ShapeOf(arg) = Corner
    /\ \A w \in Team : log[w].wrC # {}
    /\ C = OneThread(arg, Cin) /\ C # Cin

\* C9: a panel allocation that fails in gemm_packed or gemm_mk_avx2 reaches
\* the caller as an allocation-failure error; the process is not ended.
AllocFailed == \E w \in Team : wk[w].pc = "threw"

C9_AllocFailureSurfaced ==
    (arg.impl \in Packing /\ ValidBlock(arg) /\ AllocFailed) => status = "alloc_failure"

\* C10: a call with the name "openblas" ends with the backend-unavailable
\* error, loads nothing from A or B, stores nothing to C, and enters no
\* built-in implementation.
C10_OpenblasUnavailable ==
    (arg.impl = "openblas" /\ status # "ready")
        => /\ status = "backend_unavailable"
           /\ invoked = <<"gemm_openblas">>
           /\ C = CInit(arg)
           /\ \A w \in Workers : log[w] = NoLog /\ wk[w].pc = "idle"

C10_Witness ==
    /\ arg.impl = "openblas" /\ status = "backend_unavailable"
    /\ ShapeOf(arg) = Corner /\ arg.seed = 1
    /\ invoked = <<"gemm_openblas">> /\ C = CInit(arg)

\* C11: for each recognised name run_gemm enters exactly one implementation,
\* once per call, and it is the one the name designates; the implementation
\* works on the M, N, K, strides and tile sizes the caller passed.
Designated ==
    [n \in KnownNames |->
        CASE n = "naive"    -> "gemm_naive"
          [] n = "blocked"  -> "gemm_blocked"
          [] n = "packed"   -> "gemm_packed"
          [] n = "mk_avx2"  -> "gemm_mk_avx2"
          [] n = "openblas" -> "gemm_openblas"]

CallsStarted == IF status \in {"ready", "ok"} THEN ncalls ELSE ncalls + 1

\* the loop bounds the implementation derived are those of the caller's arguments
ArgumentsSeen ==
    /\ (arg.impl \in Tiled /\ ValidBlock(arg))
          => /\ sched.nI * arg.MB >= arg.M /\ (sched.nI - 1) * arg.MB < arg.M
             /\ sched.nJ * arg.NB >= arg.N /\ (sched.nJ - 1) * arg.NB < arg.N
             /\ sched.nTiles = sched.nI * sched.nJ
    /\ arg.impl = "naive"
          => \A w \in Team : wk[w].pc = "loop" => wk[w].t < arg.M /\ wk[w].hi <= arg.M

C11_DispatchesDesignated ==
    (arg.impl \in KnownNames /\ CallsStarted >= 1)
        => /\ invoked = [p \in 1 .. CallsStarted |-> Designated[arg.impl]]
           /\ status = "parallel" => ArgumentsSeen

C11_Witness ==
    /\ arg.impl = "packed" /\ status = "parallel" /\ ncalls = 1
    /\ invoked = <<"gemm_packed", "gemm_packed">>
    /\ ShapeOf(arg) = Corner /\ BlockOf(arg) = SmallBlock
    /\ sched.nTiles = 4
    /\ \E w \in Team : Len(log[w].chunks) >= 2

\* ------------------------------------------------- the kernels called alone
\* A direct call of one micro-kernel, as the kernel unit test makes it: A is
\* the MR x KC panel, B the KC x NR panel whose rows are ldb apart, C the
\* MR x NR block whose rows are ldc apart.
KernelNames == {"mk8x8_avx2", "mk8x8_avx2_strided", "mk_ref", "mk_ref_strided"}

\* the depths: every one up to the bound, and the depth 8 of the unit test
Depths == (0 .. MaxK) \cup {VEC}

\* the block shapes MR x NR <= 8 x 8: full, one row, one column, ragged
BlockShapes == {<<VEC, VEC>>, <<1, VEC>>, <<VEC, 1>>, <<VEC - 1, 3>>}

Fills == {"identity", "sequential"}

\* where the B panel starts, in floats past a 32-byte boundary
BaseOffsets == {0, 4}

KernelArgs ==
    [KC : Depths, blk : BlockShapes, bpad : {0, 1}, cpad : {0, 1},
     fill : Fills, seed : {0, 1}, bbase : BaseOffsets]

\* init_identity and init_matrix of the unit test, for a rows x cols matrix
\* whose rows are ld apart
Filled(fill, rows, cols, ld) ==
    [x \in 0 .. (rows * ld - 1) |->
        IF fill = "identity"
        THEN (IF x \div ld = x % ld THEN 1 ELSE 0)
        ELSE (IF x % ld < cols THEN 1 + (x \div ld) * cols + (x % ld) ELSE 0)]

KMR == arg.blk[1]

KNR == arg.blk[2]

Kldb == KNR + arg.bpad

Kldc == KNR + arg.cpad

KernelInit ==
    /\ arg \in KernelArgs
    /\ nthreads = 1
    /\ A = Filled(arg.fill, KMR, arg.KC, arg.KC)
    /\ B = Filled(arg.fill, arg.KC, KNR, Kldb)
    /\ C = [x \in 0 .. (KMR * Kldc - 1) |-> arg.seed * (x + 5)]
    /\ Cin = C
    /\ status = "ready"
    /\ ncalls = 0
    /\ invoked = << >>
    /\ sched = NoSched
    /\ wk = [w \in Workers |-> Idle]
    /\ log = [w \in Workers |-> NoLog]

\* the caller's view: the two panels and the block
KView(Cm) == [SerialView(Cm) EXCEPT !.Ap = A, !.Bp = B]

\* the call returns (or faults) and leaves its effect
KernelReturns(name, st, how) ==
    /\ status' = how
    /\ invoked' = <<name>>
    /\ C' = IF how = "ok" THEN st.C ELSE C
    /\ log' = [log EXCEPT ![0] =
                  [@ EXCEPT !.rdC = st.rdC, !.wrC = st.wrC,
                            !.rdAp = st.rdAp, !.rdBp = st.rdBp]]
    /\ UNCHANGED <<arg, nthreads, A, B, Cin, ncalls, sched, wk>>

FullBlock == KMR = VEC /\ KNR = VEC

Call_mk8x8_avx2 ==
    /\ status = "ready" /\ FullBlock
    /\ LET st == mk8x8_avx2(arg.KC, 0, 0, 0, Kldc, KView(C))
       IN  IF AlignedLoads(arg.KC, arg.bbase)
           THEN KernelReturns("mk8x8_avx2", st, "ok")
           ELSE \E ub \in MisalignedLoad :
                   KernelReturns("mk8x8_avx2", st, IF ub = "fault" THEN "fault" ELSE "ok")

Call_mk8x8_avx2_strided ==
    /\ status = "ready" /\ FullBlock
    /\ KernelReturns("mk8x8_avx2_strided",
                     mk8x8_avx2_strided(arg.KC, 0, 0, Kldb, 0, Kldc, KView(C)), "ok")

Call_mk_ref ==
    /\ status = "ready"
    /\ KernelReturns("mk_ref", mk_ref(KMR, KNR, arg.KC, 0, 0, 0, Kldc, KView(C)), "ok")

Call_mk_ref_strided ==
    /\ status = "ready"
    /\ KernelReturns("mk_ref_strided",
                     mk_ref_strided(KMR, KNR, arg.KC, 0, 0, Kldb, 0, Kldc, KView(C)), "ok")

KernelNext ==
    \/ Call_mk8x8_avx2
    \/ Call_mk8x8_avx2_strided
    \/ Call_mk_ref
    \/ Call_mk_ref_strided

KernelSpec == KernelInit /\ [][KernelNext]_vars


\* ------------------------------------------------------------------- C12
\* sum over k < n of A[i][k] * B[k][j], for a B panel whose rows are ld apart
RECURSIVE KDot(_, _, _, _)
KDot(i, j, ld, n) ==
    IF n = 0 THEN 0
    ELSE KDot(i, j, ld, n - 1) + A[i * arg.KC + (n - 1)] * B[(n - 1) * ld + j]

\* the block after the update C[i][j] + sum over k < KC of A[i][k] * B[k][j];
\* the elements between the rows of the block keep their value
BlockUpdated(ld) ==
    [x \in DOMAIN Cin |->
        IF x % Kldc < KNR THEN Cin[x] + KDot(x \div Kldc, x % Kldc, ld, arg.KC)
        ELSE Cin[x]]

\* the row pitch at which the kernel that ran reads the B panel
PitchOf(name) ==
    CASE name = "mk8x8_avx2" -> VEC
      [] name = "mk8x8_avx2_strided" -> Kldb
      [] name = "mk_ref" -> KNR
      [] name = "mk_ref_strided" -> Kldb

Called(name) == invoked = <<name>>

IdentityBlock == [x \in DOMAIN Cin |-> IF x \div Kldc = x % Kldc THEN 1 ELSE 0]

NumTiles(a) == ((a.M + a.MB - 1) \div a.MB) * ((a.N + a.NB - 1) \div a.NB)

\* the depths at which the chunks of a tile start
ChunkStarts(a) == {kk \in 0 .. (a.K - 1) : kk % a.KB = 0}

\* the tiles worker w has entered, in the order it entered them
TilesRun(w) ==
    LET starts == SelectSeq(log[w].chunks, LAMBDA e : e[2] = 0)
    IN  [p \in 1 .. Len(starts) |-> starts[p][1]]

\* the loop bodies that ran for chunk kk of tile t: <<worker, position>>
Ran(t, kk) ==
    UNION {{<<w, p>> : p \in {q \in DOMAIN log[w].chunks : log[w].chunks[q] = <<t, kk>>}}
           : w \in Team}

\* a tiled call with work in every tile
TiledCall == arg.impl \in Tiled /\ ValidBlock(arg) /\ arg.K >= 1

\* C13: in one tiled call no tile index is processed twice and every tile a
\* worker processes lies in [0, nTiles); each worker's tiles are a contiguous
\* ascending run, the runs follow the thread order and their lengths differ by
\* at most one (the static partition); when the call has returned, every tile
\* of [0, nTiles) has been processed exactly once, through all its chunks, so
\* no worker was still running.
C13_TilesOnceEach ==
    (TiledCall /\ status \in {"parallel", "ok"}) =>
        /\ \A w \in Team : \A p \in DOMAIN TilesRun(w) :
              /\ TilesRun(w)[p] \in 0 .. (NumTiles(arg) - 1)
              /\ p > 1 => TilesRun(w)[p] = TilesRun(w)[p - 1] + 1
        /\ \A t \in 0 .. (NumTiles(arg) - 1) : Cardinality(Ran(t, 0)) <= 1
        /\ \A w, v \in Team : w < v =>
              \A p \in DOMAIN TilesRun(w), q \in DOMAIN TilesRun(v) :
                  TilesRun(w)[p] < TilesRun(v)[q]
        /\ Returned =>
              /\ \A t \in 0 .. (NumTiles(arg) - 1) : \A kk \in ChunkStarts(arg) :
                    Cardinality(Ran(t, kk)) = 1
              /\ \A w, v \in Team : Abs(Len(TilesRun(w)) - Len(TilesRun(v))) <= 1
              /\ \A w \in Team : wk[w].pc = "idle"

\* a packed call on two threads has returned after four tiles of two chunks each
C13_Witness ==
    /\ Returned /\ TiledCall /\ arg.impl = "packed" /\ nthreads = 2
    /\ NumTiles(arg) = 4 /\ Cardinality(ChunkStarts(arg)) = 2
    /\ TilesRun(0) = <<0, 1>> /\ TilesRun(1) = <<2, 3>>


\* ------------------------------------------------------------------- C14
\* the chunk worker w ran last
LastChunk(w) == log[w].chunks[Len(log[w].chunks)]

\* rows and columns of tile t
TileRows(a, t) ==
    LET nJ == (a.N + a.NB - 1) \div a.NB
    IN  Min(a.MB, a.M - (t \div nJ) * a.MB)

TileCols(a, t) ==
    LET nJ == (a.N + a.NB - 1) \div a.NB
    IN  Min(a.NB, a.N - (t % nJ) * a.NB)

\* the origins of the sub-blocks of an extent: 0, 8, 16, ...
Origins(extent) == {x \in 0 .. (extent - 1) : x % VEC = 0}

\* worker w has run a chunk of gemm_mk_avx2
RanMkChunk(w) ==
    /\ arg.impl = "mk_avx2" /\ ValidBlock(arg) /\ arg.K >= 1
    /\ status \in {"parallel", "ok"}
    /\ Len(log[w].chunks) >= 1

\* C14: in every chunk gemm_mk_avx2 runs, each sub-block of the tile (origins
\* i0, j0 at multiples of 8, mr = min(8, rows - i0), nr = min(8, cols - j0)) is
\* handled by exactly one kernel: mk8x8_avx2_strided if and only if mr = 8 and
\* nr = 8, mk_ref_strided otherwise.
C14_KernelByBlockSize ==
    \A w \in Team : RanMkChunk(w) =>
        LET rows == TileRows(arg, LastChunk(w)[1])
            cols == TileCols(arg, LastChunk(w)[1])
        IN  /\ {<<e[1], e[2]>> : e \in log[w].kern} = Origins(rows) \X Origins(cols)
            /\ Cardinality(log[w].kern) = Cardinality(Origins(rows) \X Origins(cols))
            /\ \A e \in log[w].kern :
                  /\ e[3] = Min(VEC, rows - e[1])
                  /\ e[4] = Min(VEC, cols - e[2])
                  /\ e[5] \in {"mk8x8_avx2_strided", "mk_ref_strided"}
                  /\ e[5] = "mk8x8_avx2_strided" <=> (e[3] = VEC /\ e[4] = VEC)

\* a 9 x 9 tile: one full 8 x 8 sub-block and three partial ones
C14_Witness ==
    \E w \in Team :
        /\ RanMkChunk(w)
        /\ log[w].kern = {<<0, 0, 8, 8, "mk8x8_avx2_strided">>,
                          <<0, 8, 8, 1, "mk_ref_strided">>,
                          <<8, 0, 1, 8, "mk_ref_strided">>,
                          <<8, 8, 1, 1, "mk_ref_strided">>}


\* ------------------------------------------------------------------- C15
\* first row and first column of tile t
TileRow0(a, t) == (t \div ((a.N + a.NB - 1) \div a.NB)) * a.MB

TileCol0(a, t) == (t % ((a.N + a.NB - 1) \div a.NB)) * a.NB

\* the offsets in C of the elements of tile t
TileOffsets(a, t) ==
    {(TileRow0(a, t) + i) * a.ldc + TileCol0(a, t) + j :
        i \in 0 .. (TileRows(a, t) - 1), j \in 0 .. (TileCols(a, t) - 1)}

\* C15: a worker runs the chunks of one tile at kk = 0, KB, 2 KB, ... in that
\* order and leaves the tile only after its last chunk (kk + KB >= K); when
\* it is about to start the chunk at kk, every element of the tile holds the
\* initial value plus the products of all depths below kk, so the chunks
\* before it have completed their accumulation.
C15_ChunksInOrder ==
    (TiledCall /\ status \in {"parallel", "ok"}) =>
        \A w \in Team :
            LET done == log[w].chunks
            IN  /\ Len(done) >= 1 => done[1][2] = 0
                /\ \A p \in 1 .. (Len(done) - 1) :
                      IF done[p + 1][1] = done[p][1]
                      THEN done[p + 1][2] = done[p][2] + arg.KB
                      ELSE done[p + 1][2] = 0 /\ done[p][2] + arg.KB >= arg.K
                /\ (status = "parallel" /\ wk[w].pc = "loop") =>
                      /\ wk[w].kk \in ChunkStarts(arg)
                      /\ wk[w].kk > 0 => done[Len(done)] = <<wk[w].t, wk[w].kk - arg.KB>>
                      /\ \A x \in TileOffsets(arg, wk[w].t) :
                            C[x] = Cin[x] + DotUpTo(x \div arg.ldc, x % arg.ldc, wk[w].kk)

\* worker 0 stands between the two chunks of its first tile while worker 1
\* has already finished a later tile: the tiles are not ordered
C15_Witness ==
    /\ TiledCall /\ status = "parallel" /\ nthreads = 2
    /\ wk[0].pc = "loop" /\ wk[0].kk = arg.KB /\ wk[0].t = 0
    /\ log[0].chunks = <<<<0, 0>>>>
    /\ Len(log[1].chunks) >= 2 /\ log[1].chunks[1][1] > 0
    /\ log[1].chunks[2] = <<log[1].chunks[1][1], arg.KB>>
    /\ \E x \in TileOffsets(arg, 0) : C[x] # Cin[x]


\* ------------------------------------------------------------------- C16
\* the index triples <<i, j, k>> the loop body of chunk kk of tile t ranges
\* over: [ii, iMax) x [jj, jMax) x [kk, min(kk + KB, K))
TriplesOf(a, t, kk) ==
    LET T == Tile(t, sched.nJ, a.M, a.N, a.MB, a.NB)
    IN  (T.ii .. (T.iMax - 1)) \X (T.jj .. (T.jMax - 1))
            \X (kk .. (Min(AddInt(kk, a.KB), a.K) - 1))

\* the loop bodies that have run: <<worker, position in its log>>
BodiesRun == UNION {{<<w, p>> : p \in DOMAIN log[w].chunks} : w \in Team}

\* the triples the loop body e ranged over
Covered(e) == TriplesOf(arg, log[e[1]].chunks[e[2]][1], log[e[1]].chunks[e[2]][2])

AllTriples(a) == (0 .. (a.M - 1)) \X (0 .. (a.N - 1)) \X (0 .. (a.K - 1))

\* C16: for positive tile sizes, the (tile, chunk) pairs a tiled call runs
\* cover every triple (i, j, k) of [0, M) x [0, N) x [0, K) exactly once and
\* nothing outside it: no two loop bodies range over a common triple, every
\* body stays inside the index space, and when the call has returned the
\* bodies together have ranged over all of it.
C16_TriplesOnce ==
    (TiledCall /\ status \in {"parallel", "ok"}) =>
        /\ \A e \in BodiesRun : Covered(e) \subseteq AllTriples(arg)
        /\ \A e, f \in BodiesRun : e # f => Covered(e) \cap Covered(f) = {}
        /\ Returned => UNION {Covered(e) : e \in BodiesRun} = AllTriples(arg)

\* a returned call with ragged tiles and a ragged last chunk, on two threads
C16_Witness ==
    /\ TiledCall /\ Returned /\ arg.impl = "mk_avx2" /\ nthreads = 2
    /\ arg.M % arg.MB # 0 /\ arg.N % arg.NB # 0 /\ arg.K % arg.KB # 0
    /\ arg.M > arg.MB /\ arg.N > arg.NB /\ arg.K > arg.KB
    /\ UNION {Covered(e) : e \in BodiesRun} = AllTriples(arg)
    /\ Len(log[0].chunks) >= 2 /\ Len(log[1].chunks) >= 2

\* ------------------------------------------------------------------- C17
\* worker w holds the panels it packed for the chunk it ran last
HoldsPacked(w) ==
    /\ arg.impl \in Packing /\ ValidBlock(arg) /\ arg.K >= 1
    /\ status = "parallel"
    /\ wk[w].pc \in {"loop", "barrier"}
    /\ Len(log[w].chunks) >= 1

\* the depth of the chunk that starts at kk
ChunkDepth(a, kk) == Min(a.KB, a.K - kk)

\* C17: after packing for the chunk at kk of the tile at (ii, jj), the A
\* panel holds Ap[i * depth + k] = A[(ii + i) * lda + kk + k] and the B panel
\* holds Bp[k * cols + j] = B[(kk + k) * ldb + jj + j] for every row, depth
\* and column of the chunk, whatever the strides lda >= K and ldb >= N; A and
\* B themselves are unchanged.  The same holds for both packing
\* implementations.
C17_PackCopies ==
    \A w \in Team : HoldsPacked(w) =>
        LET t     == LastChunk(w)[1]
            kk    == LastChunk(w)[2]
            ii    == TileRow0(arg, t)
            jj    == TileCol0(arg, t)
            rows  == TileRows(arg, t)
            cols  == TileCols(arg, t)
            depth == ChunkDepth(arg, kk)
        IN  /\ \A i \in 0 .. (rows - 1), k \in 0 .. (depth - 1) :
                  /\ (i * depth + k) \in DOMAIN wk[w].Ap
                  /\ wk[w].Ap[i * depth + k] = A[(ii + i) * arg.lda + kk + k]
            /\ \A k \in 0 .. (depth - 1), j \in 0 .. (cols - 1) :
                  /\ (k * cols + j) \in DOMAIN wk[w].Bp
                  /\ wk[w].Bp[k * cols + j] = B[(kk + k) * arg.ldb + jj + j]
            /\ A = AInit(arg) /\ B = BInit(arg)

\* gemm_mk_avx2 has packed the last, ragged chunk of the last, ragged tile from
\* padded A and B
C17_Witness ==
    \E w \in Team :
        /\ HoldsPacked(w) /\ arg.impl = "mk_avx2" /\ Padded(arg)
        /\ LastChunk(w)[1] = NumTiles(arg) - 1 /\ LastChunk(w)[1] > 0
        /\ LastChunk(w)[2] > 0
        /\ TileRows(arg, LastChunk(w)[1]) < arg.MB
        /\ ChunkDepth(arg, LastChunk(w)[2]) < arg.KB
        /\ wk[w].Ap[0] = A[TileRow0(arg, LastChunk(w)[1]) * arg.lda + LastChunk(w)[2]]


\* ------------------------------------------------------------------- C18
\* worker w has run a chunk of a packing implementation; its log holds the
\* panel accesses of the chunk it ran last
RanPackedChunk(w) ==
    /\ arg.impl \in Packing /\ ValidBlock(arg) /\ arg.K >= 1
    /\ status \in {"parallel", "ok"}
    /\ Len(log[w].chunks) >= 1

\* C18: in every chunk, the kernels read only panel elements that the pack of
\* that same chunk wrote: the pack writes exactly the A panel indices below
\* actual_MB * actual_KB and the B panel indices below actual_KB * actual_NB,
\* and every panel index the kernels read is one of them, also in the ragged
\* tiles and chunks at the matrix boundary.
C18_ReadsWhatWasPacked ==
    \A w \in Team : RanPackedChunk(w) =>
        LET rows  == TileRows(arg, LastChunk(w)[1])
            cols  == TileCols(arg, LastChunk(w)[1])
            depth == ChunkDepth(arg, LastChunk(w)[2])
        IN  /\ log[w].wrAp = 0 .. (rows * depth - 1)
            /\ log[w].wrBp = 0 .. (depth * cols - 1)
            /\ log[w].rdAp \subseteq log[w].wrAp
            /\ log[w].rdBp \subseteq log[w].wrBp

\* a ragged chunk of a ragged tile, run after a larger chunk had filled the
\* panels further: the kernels read all of what was packed and no more
C18_Witness ==
    \E w \in Team :
        /\ RanPackedChunk(w) /\ status = "parallel" /\ wk[w].pc \in {"loop", "barrier"}
        /\ LastChunk(w)[2] > 0
        /\ ChunkDepth(arg, LastChunk(w)[2]) < arg.KB
        /\ TileRows(arg, LastChunk(w)[1]) < arg.MB
        /\ log[w].rdAp = log[w].wrAp /\ log[w].rdBp = log[w].wrBp
        /\ Stored(wk[w].Ap) > Cardinality(log[w].wrAp)


\* ------------------------------------------------------------------- C19
\* a call of a packing implementation in which no allocation has failed
PackingCall == arg.impl \in Packing /\ status \in {"parallel", "ok"}

BothPanels == <<"A", "B">>

\* C19: in a call of a packing implementation every worker of the team
\* allocates one A panel and one B panel when it enters the parallel region,
\* holds exactly those two, unfreed, through all the tiles and chunks it runs
\* (never storing beyond their capacity), and frees each exactly once after
\* the loop; no thread outside the team has a panel; when the call has
\* returned every worker has allocated and freed both panels once and holds
\* none.
C19_PanelsPrivateAndScoped ==
    PackingCall =>
        /\ \A w \in Team :
              /\ wk[w].pc = "alloc" =>
                    log[w].allocd = << >> /\ log[w].freed = << >> /\ wk[w].held = {}
              /\ wk[w].pc \in {"loop", "barrier"} =>
                    /\ log[w].allocd = BothPanels /\ log[w].freed = << >>
                    /\ wk[w].held = {"A", "B"}
                    /\ ValidBlock(arg) =>
                          /\ Stored(wk[w].Ap) <= wk[w].capA
                          /\ Stored(wk[w].Bp) <= wk[w].capB
              /\ wk[w].pc = "done" =>
                    log[w].allocd = BothPanels /\ log[w].freed = BothPanels
              /\ wk[w].pc \in {"done", "idle"} =>
                    wk[w].held = {} /\ wk[w].Ap = EmptyPanel /\ wk[w].Bp = EmptyPanel
              /\ Returned => log[w].allocd = BothPanels /\ log[w].freed = BothPanels
              /\ Len(log[w].chunks) >= 1 => log[w].allocd = BothPanels
        /\ \A w \in Workers \ Team :
              log[w].allocd = << >> /\ log[w].freed = << >> /\ wk[w].held = {}
        /\ Returned => \A w \in Workers : wk[w].pc = "idle"

\* the second call on two threads has returned: each worker reused its two
\* panels for several chunks and freed them
C19_Witness ==
    /\ PackingCall /\ Returned /\ ncalls = 2 /\ nthreads = 2
    /\ \A w \in Team :
          /\ Len(log[w].chunks) >= 2
          /\ log[w].allocd = BothPanels /\ log[w].freed = BothPanels
          /\ wk[w].held = {}


\* ------------------------------------------------------------------- C20
\* what each kernel leaves in C when called on the panels and the initial block
By_mk8x8_avx2 == mk8x8_avx2(arg.KC, 0, 0, 0, Kldc, KView(Cin)).C

By_mk8x8_avx2_strided(ldb) ==
    mk8x8_avx2_strided(arg.KC, 0, 0, ldb, 0, Kldc, KView(Cin)).C

By_mk_ref == mk_ref(KMR, KNR, arg.KC, 0, 0, 0, Kldc, KView(Cin)).C

By_mk_ref_strided(ldb) ==
    mk_ref_strided(KMR, KNR, arg.KC, 0, 0, ldb, 0, Kldc, KView(Cin)).C

\* the three equivalences, for the calls that completed
SameBlocks ==
    /\ (Called("mk8x8_avx2") /\ status = "ok") => C = By_mk8x8_avx2_strided(VEC)
    /\ (Called("mk8x8_avx2_strided") /\ Kldb = VEC) => C = By_mk8x8_avx2
    /\ Called("mk_ref") => C = By_mk_ref_strided(KNR)
    /\ (Called("mk_ref_strided") /\ Kldb = KNR) => C = By_mk_ref
    /\ (Called("mk_ref_strided") /\ FullBlock) => C = By_mk8x8_avx2_strided(Kldb)
    /\ (Called("mk8x8_avx2_strided") /\ FullBlock) => C = By_mk_ref_strided(Kldb)

WideDims == {0, MaxM, 65536, IntMax}

WideTiles == {1, DefaultTile, 65536, IntMax}

SizeArgs ==
    [impl : {"mk_avx2"}, M : WideDims, N : WideDims, K : WideDims,
     MB : WideTiles, NB : WideTiles, KB : WideTiles]

\* a signed overflow is undefined: the build wraps the value around or traps
SignedOverflow == {"wraps", "traps"}

NoSizes ==
    [nI |-> 0, nJ |-> 0, nTiles |-> 0, trap |-> FALSE, capA |-> 0, capB |-> 0,
     iEnd |-> 0, jEnd |-> 0, kEnd |-> 0, ovf |-> {}]

SizeInit ==
    /\ arg \in SizeArgs
    /\ nthreads = 1
    /\ A = EmptyPanel /\ B = EmptyPanel /\ C = EmptyPanel /\ Cin = EmptyPanel
    /\ status = "ready"
    /\ ncalls = 0
    /\ invoked = << >>
    /\ sched = NoSizes
    /\ wk = [w \in Workers |-> Idle]
    /\ log = [w \in Workers |-> NoLog]

Flag(name, overflowed) == IF overflowed THEN {name} ELSE {}

\* the step computed the values in vals; over lists the computations of the
\* step that overflowed
SizeStep(next, vals, over) ==
    /\ \E o \in SignedOverflow :
          /\ o = "traps" => over # {}
          /\ status' = IF o = "traps" THEN "trapped" ELSE next
    /\ sched' = [n \in DOMAIN sched |->
                    IF n = "ovf" THEN sched.ovf \cup over
                    ELSE IF n \in DOMAIN vals THEN vals[n] ELSE sched[n]]
    /\ UNCHANGED <<arg, nthreads, A, B, C, Cin, ncalls, invoked, wk, log>>

\* nI = (M + MB - 1) / MB; nJ = (N + NB - 1) / NB; nTiles = nI * nJ
ComputeTileCounts ==
    /\ status = "ready"
    /\ LET s == TileCounts(arg.M, arg.N, arg.MB, arg.NB, "zero")
       IN  SizeStep("counted",
                    [nI |-> s.nI, nJ |-> s.nJ, nTiles |-> s.nTiles],
                    Flag("nI", AddOverflows(arg.M, arg.MB))
                    \cup Flag("nJ", AddOverflows(arg.N, arg.NB))
                    \cup Flag("nTiles", MulOverflows(s.nI, s.nJ)))

\* alloc_aligned_panel(MB * KB), alloc_aligned_panel(KB * NB)
ComputePanelSizes ==
    /\ status = "counted"
    /\ LET cap == PanelCaps(arg)
       IN  SizeStep("sized", [capA |-> cap.A, capB |-> cap.B],
                    Flag("capA", MulOverflows(arg.MB, arg.KB))
                    \cup Flag("capB", MulOverflows(arg.KB, arg.NB)))

\* the depth at which the last chunk of the depth loop starts
LastChunkStart(a) == IF a.K > 0 THEN ((a.K - 1) \div a.KB) * a.KB ELSE 0

\* ii + MB and jj + NB of the last tile, kk + KB of the last chunk
ComputeTileBounds ==
    /\ status = "sized"
    /\ sched.nTiles > 0 /\ sched.nJ > 0
    /\ LET T  == Tile(sched.nTiles - 1, sched.nJ, arg.M, arg.N, arg.MB, arg.NB)
           kk == LastChunkStart(arg)
       IN  SizeStep("bounded",
                    [iEnd |-> AddInt(T.ii, arg.MB), jEnd |-> AddInt(T.jj, arg.NB),
                     kEnd |-> AddInt(kk, arg.KB)],
                    Flag("iEnd", AddOverflows(T.ii, arg.MB))
                    \cup Flag("jEnd", AddOverflows(T.jj, arg.NB))
                    \cup Flag("kEnd", AddOverflows(kk, arg.KB)))

SizeNext ==
    \/ ComputeTileCounts
    \/ ComputePanelSizes
    \/ ComputeTileBounds

SizeSpec == SizeInit /\ [][SizeNext]_vars


\* ------------------------------------------------------------------- C21
\* the number of tiles of size tile that cover n: the ceiling of n / tile
CeilDiv(n, tile) == IF n = 0 THEN 0 ELSE ((n - 1) \div tile) + 1

SizesComputed == status \in {"counted", "sized", "bounded", "trapped"}

\* C21: for any M, N, K >= 0 and any tile sizes > 0 that an int can hold, no
\* size computation of the scheduler overflows: no computation traps, nI and
\* nJ are the ceilings of M / MB and N / NB, nTiles is their product, the
\* panel capacities are the products MB x KB and KB x NB, and the ends
\* ii + MB, jj + NB, kk + KB lie above the starts they were computed from.
C21_NoOverflow ==
    SizesComputed =>
        /\ status # "trapped"
        /\ sched.nI = CeilDiv(arg.M, arg.MB)
        /\ sched.nJ = CeilDiv(arg.N, arg.NB)
        /\ ~MulOverflows(CeilDiv(arg.M, arg.MB), CeilDiv(arg.N, arg.NB))
        /\ sched.nTiles = CeilDiv(arg.M, arg.MB) * CeilDiv(arg.N, arg.NB)
        /\ status \in {"sized", "bounded"} =>
              /\ ~MulOverflows(arg.MB, arg.KB) /\ sched.capA = arg.MB * arg.KB
              /\ ~MulOverflows(arg.KB, arg.NB) /\ sched.capB = arg.KB * arg.NB
        /\ status = "bounded" =>
              /\ sched.iEnd >= arg.M /\ sched.jEnd >= arg.N
              /\ sched.kEnd > LastChunkStart(arg)


\* ------------------------------------------- the calls with tile sizes > 0
\* every call the model offers whose block configuration is valid: all six
\* implementation names, every shape and both layouts
ValidInputs == {a \in Inputs : ValidBlock(a)}

ValidInit ==
    /\ arg \in ValidInputs
    /\ nthreads \in TeamSizes
    /\ A = AInit(arg)
    /\ B = BInit(arg)
    /\ C = CInit(arg)
    /\ Cin = C
    /\ status = "ready"
    /\ ncalls = 0
    /\ invoked = << >>
    /\ sched = NoSched
    /\ wk = [w \in Workers |-> Idle]
    /\ log = [w \in Workers |-> NoLog]

ValidSpec == ValidInit /\ [][Next]_vars

\* ------------------------------------------------------------------- C22
\* the offsets of the C buffer that are no logical element: the padding
PaddingC == DOMAIN C \ LogicalC

\* C22: no implementation writes an element of A or B; every store into the C
\* buffer goes to some C[i * ldc + j] with 0 <= i < M and 0 <= j < N; the
\* padding between the logical rows (ldc > N) holds its initial values during
\* and after every call.
C22_Frame ==
    ValidBlock(arg) =>
        /\ A = AInit(arg)
        /\ B = BInit(arg)
        /\ \A w \in Workers : log[w].wrC \subseteq LogicalC
        /\ \A x \in PaddingC : C[x] = CInit(arg)[x]
        /\ DOMAIN C = DOMAIN CInit(arg)

\* gemm_mk_avx2 has returned from a padded 9 x 9 problem: every logical
\* element was written and changed, the padding column was not
C22_Witness ==
    /\ Returned /\ ValidBlock(arg) /\ arg.impl = "mk_avx2"
    /\ ShapeOf(arg) = Corner /\ Padded(arg)
    /\ AllWritten = LogicalC
    /\ PaddingC # {}
    /\ \A x \in LogicalC : C[x] # CInit(arg)[x]
    /\ \A x \in PaddingC : C[x] = CInit(arg)[x]


\* ------------------------------------------------------- C23: termination
\* a call is running with tile sizes > 0
Running == status = "parallel" /\ ValidBlock(arg)

\* the rounds of the depth loop of one tile: for (kk = 0; kk < K; kk += KB);
\* a row of gemm_naive is one round
RoundsPerIteration(a) == IF a.impl = "naive" THEN 1 ELSE CeilDiv(a.K, a.KB)

\* the steps thread w still has to take before it stands at the join
StepsLeft(w) ==
    LET per  == RoundsPerIteration(arg)
        loop == (wk[w].hi - wk[w].t) * per - (wk[w].kk \div arg.KB)
        free == IF arg.impl \in Packing THEN 1 ELSE 0
    IN  CASE wk[w].pc = "alloc"   -> 1 + (wk[w].hi - wk[w].t) * per + free
          [] wk[w].pc = "loop"    -> loop + free
          [] wk[w].pc = "barrier" -> 1
          [] OTHER                -> 0

RECURSIVE SumSteps(_)
SumSteps(ws) ==
    IF ws = {} THEN 0
    ELSE LET w == CHOOSE v \in ws : TRUE IN StepsLeft(w) + SumSteps(ws \ {w})

\* the steps left in the call: those of the team, and the join
Remaining == SumSteps(Team) + 1

\* thread w has a step to take: a round of its loop, its allocations, or
\* its frees once the whole team is past the loop
CanStep(w) ==
    \/ wk[w].pc = "loop" /\ ~Spun(w)
    \/ wk[w].pc = "alloc"
    \/ wk[w].pc = "barrier" /\ \A v \in Team : wk[v].pc \in {"barrier", "done"}

CanJoin == \A w \in Team : wk[w].pc = "done"

\* C23: every call of naive, blocked, packed or mk_avx2 with tile sizes > 0
\* ends, for one worker and for several: while the call runs some thread has a
\* step to take or the team can join, the number of steps left is finite, and
\* every step of the call (a round of a depth loop, the move to the next tile,
\* an allocation, a free) leaves fewer steps to take, so that every loop
\* reaches its bound, every worker reaches the join and the call returns.
C23_Terminates ==
    /\ [](Running => /\ ((\E w \in Team : CanStep(w)) \/ CanJoin)
                      /\ Remaining >= 1
                      /\ \A w \in Team : StepsLeft(w) >= 0)
    /\ [][Running /\ Running' => Remaining' < Remaining]_vars

\* the second call of gemm_blocked on two threads has returned, after at
\* least four rounds of the depth loop on each thread
C23_Witness ==
    /\ Returned /\ ValidBlock(arg) /\ arg.impl = "blocked"
    /\ nthreads = 2 /\ ncalls = 2
    /\ ShapeOf(arg) = Corner /\ BlockOf(arg) = SmallBlock
    /\ \A w \in Team : Len(log[w].chunks) >= 4


\* ------------------------------------------------ C24: degenerate dimensions
Degenerate(a) == a.M = 0 \/ a.N = 0 \/ a.K = 0

\* a call of one of the four implementations with a degenerate shape and
\* tile sizes > 0
DegenerateCall ==
    /\ arg.impl \in {"naive", "blocked", "packed", "mk_avx2"}
    /\ Degenerate(arg)
    /\ ValidBlock(arg)

ReadsA == UNION {log[w].rdA : w \in Workers}

ReadsB == UNION {log[w].rdB : w \in Workers}

\* no kernel was invoked: gemm_mk_avx2 logs each kernel it calls, and
\* gemm_packed calls micro_kernel_packed once in every round of a depth loop
NoKernel ==
    \A w \in Workers :
        /\ log[w].kern = {}
        /\ arg.impl \in Tiled => log[w].chunks = << >>

\* the call does not end in an error of its own (a failed panel allocation
\* of the packing implementations is the allocator's)
NoFault == status \in {"ready", "parallel", "ok", "alloc_failure", "terminated"}

Body(rows, cols, k) == [rows |-> rows, cols |-> cols, k |-> k]

\* fault: the kernels walk a panel from its last depth row to its first
PanelDepthDescending(kk, KC, k) == kk + (KC - 1 - k)

\* row k of the panels packed for the chunk [kk, kk + KC) holds depth index kk + k
PanelDepth(kk, KC, k) == kk + k

\* gemm_naive: for i, for k, the j loop over the whole row
naive_bodies(a) ==
    ForLoop(0, a.M, 1,
        LAMBDA i, s1:
            ForLoop(0, a.K, 1,
                LAMBDA k, s2: Append(s2, Body(i .. i, 0 .. (a.N - 1), k)),
                s1),
        << >>)

\* gemm_blocked, one chunk: for i in [ii, iMax), for k in [kk, kMax), the
\* vector loop and the tail loop over [jj, jMax)
blocked_bodies(a, t, kk, nJ, done) ==
    LET T    == Tile(t, nJ, a.M, a.N, a.MB, a.NB)
        kMax == Min(AddInt(kk, a.KB), a.K)
    IN  ForLoop(T.ii, T.iMax, 1,
            LAMBDA i, s1:
                ForLoop(kk, kMax, 1,
                    LAMBDA k, s2: Append(s2, Body(i .. i, T.jj .. (T.jMax - 1), k)),
                    s1),
            done)

\* gemm_packed, one chunk: micro_kernel_packed over the packed panels,
\* for i in [0, MB), for k in [0, KB), the loops over the panel row
packed_bodies(a, t, kk, nJ, done) ==
    LET T         == Tile(t, nJ, a.M, a.N, a.MB, a.NB)
        actual_MB == T.iMax - T.ii
        actual_KB == Min(AddInt(kk, a.KB), a.K) - kk
    IN  ForLoop(0, actual_MB, 1,
            LAMBDA i, s1:
                ForLoop(0, actual_KB, 1,
                    LAMBDA k, s2:
                        Append(s2, Body((T.ii + i) .. (T.ii + i), T.jj .. (T.jMax - 1),
                                        PanelDepth(kk, actual_KB, k))),
                    s1),
            done)

\* mk8x8_avx2_strided on the sub-block at (r0, c0): the unrolled loop, four
\* depth steps per round, then the remainder loop; each step updates all 64
\* accumulators
mk8x8_bodies(r0, c0, kk, KC, done) ==
    LET step(k, s) == Append(s, Body(r0 .. (r0 + VEC - 1), c0 .. (c0 + VEC - 1),
                                     PanelDepth(kk, KC, k)))
        u == Mk8x8Unrolled(0, KC, step, done)
    IN  ForLoop(u.k, KC, 1, step, u.ks)

\* mk_ref_strided on the sub-block at (r0, c0): for i, for k, the j loop
mk_ref_bodies(r0, c0, mr, nr, kk, KC, done) ==
    ForLoop(0, mr, 1,
        LAMBDA i, s1:
            ForLoop(0, KC, 1,
                LAMBDA k, s2:
                    Append(s2, Body((r0 + i) .. (r0 + i), c0 .. (c0 + nr - 1),
                                    PanelDepth(kk, KC, k))),
                s1),
        done)

\* gemm_mk_avx2, one chunk: the i0 / j0 loops over the sub-blocks of the tile
mk_avx2_bodies(a, t, kk, nJ, done) ==
    LET T         == Tile(t, nJ, a.M, a.N, a.MB, a.NB)
        actual_MB == T.iMax - T.ii
        actual_NB == T.jMax - T.jj
        actual_KB == Min(AddInt(kk, a.KB), a.K) - kk
    IN  ForLoop(0, actual_MB, VEC,
            LAMBDA i0, s3:
                ForLoop(0, actual_NB, VEC,
                    LAMBDA j0, s4:
                        LET mr == Min(VEC, actual_MB - i0)
                            nr == Min(VEC, actual_NB - j0)
                        IN  IF KernelFor(mr, nr) = "mk8x8_avx2_strided"
                            THEN mk8x8_bodies(T.ii + i0, T.jj + j0, kk, actual_KB, s4)
                            ELSE mk_ref_bodies(T.ii + i0, T.jj + j0, mr, nr, kk, actual_KB, s4),
                    s3),
            done)

\* the bodies of one chunk of the tiled implementation a.impl
chunk_bodies(a, t, kk, nJ, done) ==
    CASE a.impl = "blocked" -> blocked_bodies(a, t, kk, nJ, done)
      [] a.impl = "packed"  -> packed_bodies(a, t, kk, nJ, done)
      [] a.impl = "mk_avx2" -> mk_avx2_bodies(a, t, kk, nJ, done)

\* for (t = 0; t < nTiles; ++t) for (kk = 0; kk < K; kk += KB) the chunk
tiled_bodies(a) ==
    LET s == TileCounts(a.M, a.N, a.MB, a.NB, "zero")
    IN  ForLoop(0, s.nTiles, 1,
            LAMBDA t, s1:
                ForLoop(0, a.K, a.KB, LAMBDA kk, s2: chunk_bodies(a, t, kk, s.nJ, s2), s1),
            << >>)

\* every execution of a k-loop body in the call, in program order
Bodies(a) == IF a.impl = "naive" THEN naive_bodies(a) ELSE tiled_bodies(a)

\* the calls followed: the four implementations, tile sizes > 0
OrderInputs ==
    {a \in Inputs : a.impl \in {"naive", "blocked", "packed", "mk_avx2"} /\ ValidBlock(a)}

\* in this specification sched.pos counts the bodies executed, and log[x] is
\* the sequence of depth indices whose products were added to C[x]
OrderInit ==
    /\ arg \in OrderInputs
    /\ nthreads = 1
    /\ A = AInit(arg)
    /\ B = BInit(arg)
    /\ C = CInit(arg)
    /\ Cin = C
    /\ status = "ready"
    /\ ncalls = 0
    /\ invoked = << >>
    /\ sched = [pos |-> 0]
    /\ wk = [w \in Workers |-> Idle]
    /\ log = [x \in DOMAIN C |-> << >>]

\* the call is made
OrderCall ==
    /\ status = "ready"
    /\ status' = "adding"
    /\ invoked' = <<run_gemm_target(arg.impl)>>
    /\ UNCHANGED <<arg, nthreads, A, B, C, Cin, ncalls, sched, wk, log>>

\* the elements of C the body b updates, as offsets
Updated(b) == {i * arg.ldc + j : i \in b.rows, j \in b.cols}

\* the next body runs: C[i][j] += A[i][k] * B[k][j] over its rows and columns
AddProduct ==
    /\ status = "adding"
    /\ sched.pos < Len(Bodies(arg))
    /\ \E b \in {Bodies(arg)[sched.pos + 1]} :
           /\ C' = [x \in DOMAIN C |->
                       IF x \in Updated(b)
                       THEN C[x] + Load(A, (x \div arg.ldc) * arg.lda + b.k)
                                   * Load(B, b.k * arg.ldb + (x % arg.ldc))
                       ELSE C[x]]
           /\ log' = [x \in DOMAIN C |->
                         IF x \in Updated(b) THEN Append(log[x], b.k) ELSE log[x]]
    /\ sched' = [pos |-> sched.pos + 1]
    /\ UNCHANGED <<arg, nthreads, A, B, Cin, status, ncalls, invoked, wk>>

\* the last body has run; the call returns
OrderReturn ==
    /\ status = "adding"
    /\ sched.pos = Len(Bodies(arg))
    /\ status' = "ok"
    /\ ncalls' = ncalls + 1
    /\ UNCHANGED <<arg, nthreads, A, B, C, Cin, invoked, sched, wk, log>>

OrderNext == OrderCall \/ AddProduct \/ OrderReturn

OrderSpec == OrderInit /\ [][OrderNext]_vars

\* ------------------------------------------------- C25: summation order
\* the depth indices 0, 1, .., n-1 in increasing order
Ascending(n) == [p \in 1 .. n |-> p - 1]

\* C25: in every implementation and under every valid block configuration,
\* the products added to an element C[i][j] are those of k = 0, 1, 2, .. in
\* strictly increasing order, the element holds the partial sum
\* C0[i][j] + sum over k < n of A[i][k] * B[k][j] after n of them (the same
\* sequence of partial sums in all four implementations), and all K have been
\* added when the call returns; nothing is added to the padding.
C25_SameOrder ==
    \A x \in DOMAIN C :
        LET n == Len(log[x])
        IN  /\ log[x] = Ascending(n)
            /\ n <= arg.K
            /\ IF x \in LogicalC
               THEN /\ C[x] = Cin[x] + DotUpTo(x \div arg.ldc, x % arg.ldc, n)
                    /\ status = "ok" => n = arg.K
               ELSE n = 0 /\ C[x] = Cin[x]

\* gemm_mk_avx2 has returned from a call on the largest shape with the small
\* tiles (two chunks per tile, 8x8 and edge sub-blocks): every element received
\* the products 0 .. K-1 in that order
C25_Witness ==
    /\ status = "ok" /\ arg.impl = "mk_avx2"
    /\ ShapeOf(arg) = Corner /\ BlockOf(arg) = SmallBlock
    /\ sched.pos = Len(Bodies(arg)) /\ sched.pos > MaxK
    /\ \A x \in LogicalC : log[x] = Ascending(MaxK)


\* ----------------------------------------------- the correctness-test driver
\* main of test_correctness.cpp: every shape with every implementation, the
\* default block sizes, tight strides.  In this specification arg is the case
\* under test, Cin is C_ref, C is C_test, sched holds the counters of main,
\* and invoked is the record of the cases that were run.
TestCases == <<<<2, 2, 2>>, <<1, 3, 1>>, <<3, 1, 3>>>>

Implementations == <<"blocked", "packed", "mk_avx2">>

NumCases == Len(TestCases) * Len(Implementations)

\* the n-th call of test_implementation: lda = K, ldb = N, ldc = N, Block{256, 256, 256}
CaseArgs(n) ==
    Args(Implementations[((n - 1) % Len(Implementations)) + 1],
         TestCases[((n - 1) \div Len(Implementations)) + 1],
         <<0, 1>>, DefaultBlock)

\* zero_matrix
zero_matrix(a) == [x \in DOMAIN CInit(a) |-> 0]

\* what a call of run_gemm from the driver comes to: it returns, or a panel
\* allocation of a packing implementation fails
RunOutcomes(impl, nth) ==
    {"ok"} \cup (IF impl \in Packing THEN ThrowOutcomes(nth) ELSE {})

\* the float result against the exact one: equal, or off in its first element
Rounding == {0, 1}

Rounded(Cm, off) == [x \in DOMAIN Cm |-> IF x = 0 THEN Cm[x] + off ELSE Cm[x]]

\* the two sums of relative_error: diff_norm and ref_norm
RECURSIVE SumSquares(_, _)
SumSquares(f, xs) ==
    IF xs = {} THEN 0
    ELSE LET x == CHOOSE y \in xs : TRUE IN f[x] * f[x] + SumSquares(f, xs \ {x})

relative_error(C1, C2, rows, cols, ld) ==
    LET cells == {i * ld + j : i \in 0 .. (rows - 1), j \in 0 .. (cols - 1)}
    IN  [diff_norm |-> SumSquares([x \in cells |-> C1[x] - C2[x]], cells),
         ref_norm  |-> SumSquares([x \in cells |-> C2[x]], cells)]

\* error <= tolerance, error = sqrt(diff_norm) / (sqrt(ref_norm) + 1e-30) and
\* tolerance = 1e-6: the error is 0, or ref_norm / diff_norm >= 10^12
WithinTolerance(err) ==
    \/ err.diff_norm = 0
    \/ (err.ref_norm \div err.diff_norm) \div 1000000 >= 1000000

DriverInit ==
    /\ arg = CaseArgs(1)
    /\ nthreads \in TeamSizes
    /\ A = EmptyPanel
    /\ B = EmptyPanel
    /\ C = EmptyPanel
    /\ Cin = EmptyPanel
    /\ status = "ready"
    /\ ncalls = 0
    /\ invoked = << >>
    /\ sched = [next |-> 1, total |-> 0, passed |-> 0]
    /\ wk = [w \in Workers |-> Idle]
    /\ log = [w \in Workers |-> NoLog]

\* total_tests++, and test_implementation up to the reference: the four
\* allocations (outside the try block: a failure leaves main as an uncaught
\* exception), fill_random of A and B, zero_matrix of C_ref and C_test
AllocAndFill ==
    /\ status = "ready"
    /\ sched.next <= NumCases
    /\ UNCHANGED <<nthreads, ncalls, invoked, wk, log>>
    /\ \E ok \in BOOLEAN :
          IF ok
          THEN /\ arg' = CaseArgs(sched.next)
               /\ A' = AInit(arg')
               /\ B' = BInit(arg')
               /\ C' = zero_matrix(arg')
               /\ Cin' = zero_matrix(arg')
               /\ sched' = [sched EXCEPT !.total = @ + 1]
               /\ status' = "filled"
          ELSE /\ status' = "aborted"
               /\ UNCHANGED <<arg, A, B, C, Cin, sched>>

\* the rest of test_implementation and passed_tests++: gemm_naive into C_ref,
\* run_gemm into C_test inside the inner try, whose handler returns true; the
\* comparison otherwise.  An exception inside an OpenMP region ends the process.
RunAndCompare ==
    /\ status = "filled"
    /\ UNCHANGED <<arg, nthreads, A, B, ncalls, wk, log>>
    /\ \E out \in RunOutcomes(arg.impl, nthreads), off \in Rounding :
       \E ref \in {gemm_naive(arg, Cin)} :
       \E got \in {IF out = "ok" THEN Rounded(OneThread(arg, C), off) ELSE C} :
       \E within \in {out = "ok" /\ WithinTolerance(relative_error(got, ref, arg.M, arg.N, arg.ldc))} :
       \E ret \in {IF out = "ok" THEN within ELSE TRUE} :
          /\ out # "ok" => off = 0
          /\ Cin' = ref
          /\ C' = got
          /\ IF out = "terminated"
             THEN /\ status' = "aborted"
                  /\ UNCHANGED <<invoked, sched>>
             ELSE /\ status' = "ready"
                  /\ invoked' = Append(invoked,
                                   [impl |-> arg.impl, shape |-> ShapeOf(arg),
                                    outcome |-> out, within |-> within, counted |-> ret])
                  /\ sched' = [sched EXCEPT !.next = @ + 1,
                                            !.passed = IF ret THEN @ + 1 ELSE @]

\* the summary: return 0 if passed_tests == total_tests, 1 otherwise
Summary ==
    /\ status = "ready"
    /\ sched.next > NumCases
    /\ status' = IF sched.passed = sched.total THEN "exit_0" ELSE "exit_1"
    /\ UNCHANGED <<arg, nthreads, A, B, C, Cin, ncalls, invoked, sched, wk, log>>

DriverNext == AllocAndFill \/ RunAndCompare \/ Summary

DriverSpec == DriverInit /\ [][DriverNext]_vars

\* ------------------------------------------------ C26: what counts as passed
\* the cases that were counted as passed
Counted == {p \in DOMAIN invoked : invoked[p].counted}

\* the implementation ran to completion and its error is within the tolerance
RanWithin(p) == invoked[p].outcome = "ok" /\ invoked[p].within

\* C26: the driver counts a case as passed only if the implementation ran to
\* completion and its relative error against the naive reference is <= 1e-6; a
\* case in which run_gemm raised is not counted; and the driver exits with 0
\* only if every case ran and passed.
C26_Stated ==
    /\ \A p \in Counted : RanWithin(p)
    /\ sched.passed = Cardinality(Counted)
    /\ status = "exit_0" =>
          /\ Len(invoked) = NumCases
          /\ \A p \in DOMAIN invoked : RanWithin(p)

====
